---- MODULE Spec2Model ----
(***************************************************************************)
(* Model of src/reduction_scraper.py: the announcement fetcher, the title  *)
(* filter, the field extractor, the document enhancer and the pipeline     *)
(* orchestrator.                                                           *)
(*                                                                         *)
(* Texts are sequences of characters.  A character is written as a string  *)
(* token: an ASCII character stands for itself, a Chinese character is     *)
(* written by its pinyin (with a digit where two characters share it):     *)
(*   拟 ni  减 jian  持 chi  股 gu  份 fen  计 ji  划 hua  进 jin  展 zhan  *)
(*   方 fang  案 an  公 gong  告 gao  集 ji2  中 zhong  竞 jing  价 jia     *)
(*   大 da  宗 zong  交 jiao  易 yi  少 shao  比 bi  例 li  预 yu2  披 pi   *)
(*   露 lu  数 shu  量 liang  东 dong  关 guan  于 yu  增 zeng  的 de       *)
(*   票 piao  回 hui  购 gou  不 bu  超 chao  过 guo  总 zong2  本 ben      *)
(*   约 yue  占 zhan2  合 he  万 wan  二 er  级 ji3  市 shi  场 chang       *)
(*   协 xie  议 yi2  转 zhuan  让 rang  式 shi2  询 xun  定 ding  向 xiang  *)
(*   非 fei  户 hu  首 shou  次 ci  开 kai  发 fa  行 xing  前 qian         *)
(*   上 shang  有 you  原 yuan  始 shi3  取 qu  得 de2  权 quan  激 ji4     *)
(*   励 li2  限 xian  制 zhi  性 xing2  期 qi  授 shou2  予 yu3  员 yuan2   *)
(*   工 gong2  受 shou3  继 ji5  承 cheng  赠 zeng2  与 yu4  司 si  法 fa2  *)
(*   拍 pai  卖 mai  通 tong  将 jiang  出 chu  售 shou4  控 kong  实 shi4  *)
(*   人 ren  董 dong2  事 shi5  监 jian2  高 gao2  管 guan2  以 yi3         *)
(*   伙 huo  企 qi2  业 ye  基 ji6  金 jin2  心 xin  先 xian2  生 sheng     *)
(*   女 nv  士 shi6  张 zhang  三 san  某 mou  李 li3  四 si2  需 xu        *)
(*   核 he2  及 ji7  其 qi3  他 ta  或 huo2  沪 hu2  所 suo                  *)
(*   ， fcomma  ： fcolon  （ flpar  ） frpar  、 dun  · mdot               *)
(***************************************************************************)
EXTENDS Integers, Sequences, FiniteSets, TLC

(***************************************************************************)
(* Characters                                                              *)
(***************************************************************************)

\* The characters of the model's texts that lie in [一-龥].
Han ==
  {"ni", "jian", "chi", "gu", "fen", "ji", "hua", "jin", "zhan", "fang", "an",
   "gong", "gao", "ji2", "zhong", "jing", "jia", "da", "zong", "jiao", "yi",
   "shao", "bi", "li", "yu2", "pi", "lu", "shu", "liang", "dong", "guan", "yu",
   "zeng", "de", "piao", "hui", "gou", "bu", "chao", "guo", "zong2", "ben",
   "yue", "zhan2", "he", "wan", "er", "ji3", "shi", "chang", "xie", "yi2",
   "zhuan", "rang", "shi2", "xun", "ding", "xiang", "fei", "hu", "shou", "ci",
   "kai", "fa", "xing", "qian", "shang", "you", "yuan", "shi3", "qu", "de2",
   "quan", "ji4", "li2", "xian", "zhi", "xing2", "qi", "shou2", "yu3", "yuan2",
   "gong2", "shou3", "ji5", "cheng", "zeng2", "yu4", "si", "fa2", "pai", "mai",
   "tong", "jiang", "chu", "shou4", "kong", "shi4", "ren", "dong2", "shi5",
   "jian2", "gao2", "guan2", "yi3", "huo", "qi2", "ye", "ji6", "jin2", "xin",
   "xian2", "sheng", "nv", "shi6", "zhang", "san", "mou", "li3", "si2", "xu",
   "he2", "ji7", "qi3", "ta", "huo2", "hu2", "suo"}

\* \d
Digit == {"0", "1", "2", "3", "4", "5", "6", "7", "8", "9"}

\* [A-Za-z]
Latin ==
  {"A", "B", "C", "D", "E", "F", "G", "H", "I", "J", "K", "L",
   "M", "N", "O", "P", "Q", "R", "S", "T", "U", "V", "W", "X", "Y", "Z",
   "a", "b", "c", "d", "e", "f", "g", "h", "i", "j", "k", "l",
   "m", "n", "o", "p", "q", "r", "s", "t", "u", "v", "w", "x", "y", "z"}

\* \s
Space == {" ", "\n", "\t"}

(***************************************************************************)
(* Python values that an announcement field can hold (the JSON body of the *)
(* query endpoint decides their types).                                    *)
(***************************************************************************)

PyStr(s) == [type |-> "str", val |-> s]

PyNone == [type |-> "NoneType", val |-> <<>>]

PyInt(n) == [type |-> "int", val |-> n]

\* bool(v): None, "" and 0 are falsy.
Truthy(v) ==
  CASE v.type = "NoneType" -> FALSE
    [] v.type = "str" -> v.val # <<>>
    [] OTHER -> v.val # 0

(***************************************************************************)
(* Text helpers                                                            *)
(***************************************************************************)

\* kw in text
Contains(text, kw) ==
  \E i \in 1..(Len(text) - Len(kw) + 1) : SubSeq(text, i, i + Len(kw) - 1) = kw

RECURSIVE Concat(_)
\* The concatenation of a sequence of sequences.
Concat(ss) == IF ss = <<>> THEN <<>> ELSE Head(ss) \o Concat(Tail(ss))

RECURSIVE LStrip(_)
LStrip(s) == IF s # <<>> /\ Head(s) \in Space THEN LStrip(Tail(s)) ELSE s

RECURSIVE RStrip(_)
RStrip(s) ==
  IF s # <<>> /\ s[Len(s)] \in Space THEN RStrip(SubSeq(s, 1, Len(s) - 1)) ELSE s

\* str.strip()
Strip(s) == LStrip(RStrip(s))

(***************************************************************************)
(* Regular expressions, with the matching order of Python's re module: a   *)
(* match is the first one a backtracking search finds.  MatchAt gives, in  *)
(* that order, every <<end position, capture of group 1>> of a match of    *)
(* the expression r that starts at position i of text.                     *)
(***************************************************************************)

\* One character of the set s.
In(s) == [t |-> "set", s |-> s]

\* One character outside the set s.
NotIn(s) == [t |-> "nset", s |-> s]

\* "." (no DOTALL flag: every character but the newline)
Dot == NotIn({"\n"})

Cat(rs) == [t |-> "cat", a |-> rs]

Alt(rs) == [t |-> "alt", a |-> rs]

\* r{min,max}, greedy; max = -1 is no upper limit
Rep(r, min, max) == [t |-> "rep", r |-> r, min |-> min, max |-> max, lazy |-> FALSE]

\* r{min,max}?, lazy
RepLazy(r, min, max) == [t |-> "rep", r |-> r, min |-> min, max |-> max, lazy |-> TRUE]

Star(r) == Rep(r, 0, -1)

StarLazy(r) == RepLazy(r, 0, -1)

Plus(r) == Rep(r, 1, -1)

PlusLazy(r) == RepLazy(r, 1, -1)

Opt(r) == Rep(r, 0, 1)

\* ( r ): the capturing group (every pattern of the program has one at most)
Group(r) == [t |-> "grp", r |-> r]

\* ^
Bol == [t |-> "bol"]

\* $
Eol == [t |-> "eol"]

\* A literal word.
Lit(w) == [t |-> "lit", w |-> w]

Min(S) == CHOOSE x \in S : \A y \in S : x <= y

\* How many characters from position i on the character class r matches,
\* one after the other
RunLength(r, text, i) ==
  LET stops == {j \in i..Len(text) :
                  IF r.t = "set" THEN text[j] \notin r.s ELSE text[j] \in r.s}
  IN  (IF stops = {} THEN Len(text) + 1 ELSE Min(stops)) - i

NoCap == <<0, 0>>

RECURSIVE MatchAt(_, _, _, _)
RECURSIVE MatchCat(_, _, _, _, _)
RECURSIVE MatchAlt(_, _, _, _, _)
RECURSIVE MatchRep(_, _, _, _, _)
RECURSIVE MatchRepMore(_, _, _, _, _)
RECURSIVE MatchCatRest(_, _, _, _, _)

MatchCatRest(rs, k, text, res, j) ==
  IF j > Len(res) THEN <<>>
  ELSE MatchCat(rs, k, text, res[j][1], res[j][2])
       \o MatchCatRest(rs, k, text, res, j + 1)

MatchCat(rs, k, text, i, cap) ==
  IF k > Len(rs) THEN << <<i, cap>> >>
  ELSE MatchCatRest(rs, k + 1, text, MatchAt(rs[k], text, i, cap), 1)

MatchAlt(rs, k, text, i, cap) ==
  IF k > Len(rs) THEN <<>>
  ELSE MatchAt(rs[k], text, i, cap) \o MatchAlt(rs, k + 1, text, i, cap)

MatchRepMore(r, n, text, res, j) ==
  IF j > Len(res) THEN <<>>
  ELSE MatchRep(r, n, text, res[j][1], res[j][2])
       \o MatchRepMore(r, n, text, res, j + 1)

\* Stopping before going on if lazy, after it if greedy
InOrder(lazy, stop, more) == IF lazy THEN stop \o more ELSE more \o stop

\* The matches res of the body of a group that starts at i, with the capture
Captured(res, i) == [j \in 1..Len(res) |-> <<res[j][1], <<i, res[j][1]>> >>]

\* The repetition of a character class: the ends of its matches are the
\* lengths r.min..hi, the longest first (the shortest first if lazy)
MatchRepClass(r, text, i, cap) ==
  LET run == RunLength(r.r, text, i)
      hi  == IF r.max = -1 \/ run < r.max THEN run ELSE r.max
  IN  IF hi < r.min THEN <<>>
      ELSE [k \in 1..(hi - r.min + 1) |->
              <<i + (IF r.lazy THEN r.min + k - 1 ELSE hi - k + 1), cap>>]

\* n repetitions are done; the iterations that consume nothing are dropped
MatchRep(r, n, text, i, cap) ==
  IF n = 0 /\ r.r.t \in {"set", "nset"} THEN MatchRepClass(r, text, i, cap)
  ELSE
  InOrder(r.lazy,
          IF n >= r.min THEN << <<i, cap>> >> ELSE <<>>,
          MatchRepMore(r, n + 1, text,
                       IF r.max = -1 \/ n < r.max
                       THEN SelectSeq(MatchAt(r.r, text, i, cap), LAMBDA e : e[1] > i)
                       ELSE <<>>,
                       1))

MatchAt(r, text, i, cap) ==
  CASE r.t = "set" ->
         IF i <= Len(text) /\ text[i] \in r.s THEN << <<i + 1, cap>> >> ELSE <<>>
    [] r.t = "nset" ->
         IF i <= Len(text) /\ text[i] \notin r.s THEN << <<i + 1, cap>> >> ELSE <<>>
    [] r.t = "lit" ->
         IF i + Len(r.w) - 1 <= Len(text) /\ SubSeq(text, i, i + Len(r.w) - 1) = r.w
         THEN << <<i + Len(r.w), cap>> >> ELSE <<>>
    [] r.t = "cat" -> MatchCat(r.a, 1, text, i, cap)
    [] r.t = "alt" -> MatchAlt(r.a, 1, text, i, cap)
    [] r.t = "rep" -> MatchRep(r, 0, text, i, cap)
    [] r.t = "grp" -> Captured(MatchAt(r.r, text, i, cap), i)
    [] r.t = "bol" -> IF i = 1 THEN << <<i, cap>> >> ELSE <<>>
    [] r.t = "eol" ->
         IF i = Len(text) + 1 \/ (i = Len(text) /\ text[i] = "\n")
         THEN << <<i, cap>> >> ELSE <<>>

\* re.match(pat, text) is not None
ReMatch(r, text) == MatchAt(r, text, 1, NoCap) # <<>>

\* The start positions at which re.search finds a match (it takes the least).
SearchStarts(r, text) ==
  {i \in 1..(Len(text) + 1) : MatchAt(r, text, i, NoCap) # <<>>}

\* re.search(pat, text) is not None
ReFound(r, text) == SearchStarts(r, text) # {}

\* The capture of the match m = <<end, <<from, to>> >>
Capture(m, text) == SubSeq(text, m[2][1], m[2][2] - 1)

\* re.search(pat, text).group(1), for a pattern that matches
ReGroup1(r, text) ==
  Capture(MatchAt(r, text, Min(SearchStarts(r, text)), NoCap)[1], text)

(***************************************************************************)
(* CONFIG                                                                  *)
(***************************************************************************)

\* CONFIG["max_retries"]
max_retries == 3

\* 拟减持 减持股份计划 减持进展 减持计划 减持方案 减持公告 集中竞价减持
\* 大宗交易减持 减持股份 减少持股比例 预减持 减持预披露 减持数量 股份减持
\* 股东减持
reduction_keywords ==
  << <<"ni", "jian", "chi">>, <<"jian", "chi", "gu", "fen", "ji", "hua">>, <<"jian", "chi", "jin", "zhan">>, <<"jian", "chi", "ji", "hua">>,
     <<"jian", "chi", "fang", "an">>, <<"jian", "chi", "gong", "gao">>, <<"ji2", "zhong", "jing", "jia", "jian", "chi">>,
     <<"da", "zong", "jiao", "yi", "jian", "chi">>, <<"jian", "chi", "gu", "fen">>, <<"jian", "shao", "chi", "gu", "bi", "li">>,
     <<"yu2", "jian", "chi">>, <<"jian", "chi", "yu2", "pi", "lu">>, <<"jian", "chi", "shu", "liang">>, <<"gu", "fen", "jian", "chi">>,
     <<"gu", "dong", "jian", "chi">> >>

\* r"^关于.*增持.*的公告$", r"^.*股票回购.*$"
title_exclude_patterns ==
  << Cat(<<Bol, Lit(<<"guan", "yu">>), Star(Dot), Lit(<<"zeng", "chi">>), Star(Dot),
           Lit(<<"de", "gong", "gao">>), Eol>>),
     Cat(<<Bol, Star(Dot), Lit(<<"gu", "piao", "hui", "gou">>), Star(Dot), Eol>>) >>

\* "需人工核实"
Sentinel == <<"xu", "ren", "gong2", "he2", "shi4">>

(***************************************************************************)
(* Announcements                                                           *)
(***************************************************************************)

\* dict.get(key, default): the key's value, the default when it is absent
Get(d, key, default) == IF key \in DOMAIN d THEN d[key] ELSE default

\* The announcements of the model.  A list of the program holds references
\* to announcement dicts: here, their indices in Anns.  1 and 2 share their
\* id; 4 has no id; the title of 3 matches an exclusion pattern, that of 7
\* has no keyword; 6 has a null title and 5 a numeric adjunctUrl; the title
\* of 13 resolves holder and method, and its link is a document; the id of
\* 14 is the empty text.
Anns ==
  << [announcementId    |-> PyStr(<<"1", "0", "0", "1">>),
      announcementTitle |-> PyStr(<<"guan", "yu", "gu", "dong", "ni", "jian", "chi", "gu", "fen", "de", "gong", "gao">>),
      secCode |-> PyStr(<<"0", "0", "0", "0", "0", "1">>), secName |-> PyStr(<<"A">>),
      adjunctUrl |-> PyStr(<<"2", "0", "2", "5", "-", "0", "1", "-", "1", "5", "/", "1", ".", "P", "D", "F">>), announcementTime |-> PyInt(20103)],
     [announcementId    |-> PyStr(<<"1", "0", "0", "1">>),
      announcementTitle |-> PyStr(<<"guan", "yu", "zhang", "san", "xian2", "sheng", "ni", "jian", "chi", "bu", "chao", "guo", "gong", "si", "zong2", "gu", "ben", "de", "5", ".", "5", "%", "de", "gong", "gao">>),
      secCode |-> PyInt(2), secName |-> PyStr(<<"B">>),
      adjunctUrl |-> PyStr(<<>>), announcementTime |-> PyNone],
     [announcementId    |-> PyStr(<<"1", "0", "0", "2">>),
      announcementTitle |-> PyStr(<<"guan", "yu", "kong", "gu", "gu", "dong", "zeng", "chi", "gu", "fen", "ji7", "jian", "chi", "ji", "hua", "de", "gong", "gao">>),
      secCode |-> PyStr(<<"6", "0", "0", "0", "0", "0">>), secName |-> PyStr(<<"C">>),
      adjunctUrl |-> PyStr(<<"2", "0", "2", "5", "-", "0", "1", "-", "1", "5", "/", "2", ".", "P", "D", "F">>), announcementTime |-> PyInt(20103)],
     [announcementTitle |-> PyStr(<<"gu", "dong", "jian", "chi", "gu", "fen", "ji", "hua", "gong", "gao">>),
      secCode |-> PyStr(<<"6", "0", "0", "0", "0", "1">>), secName |-> PyStr(<<"D">>),
      adjunctUrl |-> PyStr(<<"2", "0", "2", "5", "-", "0", "1", "-", "1", "5", "/", "3", ".", "P", "D", "F">>), announcementTime |-> PyInt(20103)],
     [announcementId    |-> PyStr(<<"1", "0", "0", "3">>),
      announcementTitle |-> PyStr(<<"gu", "dong", "jian", "chi", "gu", "fen", "ji", "hua", "gong", "gao">>),
      secCode |-> PyStr(<<"6", "0", "0", "0", "0", "2">>), secName |-> PyStr(<<"E">>),
      adjunctUrl |-> PyInt(12345), announcementTime |-> PyInt(20103)],
     [announcementId    |-> PyStr(<<"1", "0", "0", "4">>),
      announcementTitle |-> PyNone,
      secCode |-> PyStr(<<"6", "0", "0", "0", "0", "3">>), secName |-> PyStr(<<"F">>),
      adjunctUrl |-> PyStr(<<"2", "0", "2", "5", "-", "0", "1", "-", "1", "5", "/", "4", ".", "P", "D", "F">>), announcementTime |-> PyInt(20103)],
     [announcementId    |-> PyStr(<<"1", "0", "0", "5">>),
      announcementTitle |-> PyStr(<<"hu2", "shi", "gong", "gao">>),
      secCode |-> PyStr(<<"6", "0", "0", "0", "0", "4">>), secName |-> PyStr(<<"A">>),
      adjunctUrl |-> PyStr(<<"2", "0", "2", "5", "-", "0", "1", "-", "1", "5", "/", "5", ".", "P", "D", "F">>), announcementTime |-> PyInt(20103)],
     [announcementId    |-> PyStr(<<"1", "0", "0", "6">>),
      announcementTitle |-> PyStr(<<"guan", "yu", "gu", "piao", "hui", "gou", "ji7", "gu", "dong", "jian", "chi", "de", "gong", "gao">>),
      secCode |-> PyStr(<<"6", "0", "0", "0", "0", "5">>), secName |-> PyStr(<<"B">>),
      adjunctUrl |-> PyStr(<<" ", " ">>), announcementTime |-> PyInt(20103)],
     [announcementId    |-> PyStr(<<"1", "0", "0", "7">>),
      announcementTitle |-> PyStr(<<"guan", "yu", "zeng", "chi", "\n", "jian", "chi", "gu", "fen", "de", "gong", "gao">>),
      secCode |-> PyStr(<<"6", "0", "0", "0", "0", "6">>), secName |-> PyStr(<<"C">>),
      adjunctUrl |-> PyNone, announcementTime |-> PyInt(20103)],
     [announcementId    |-> PyStr(<<"1", "0", "0", "8">>),
      announcementTitle |-> PyStr(<<"guan", "yu", "mou", "mou", "you", "xian", "gong", "si", "ni", "tong", "guo", "da", "zong", "jiao", "yi", "huo2", "ji2", "zhong", "jing", "jia", "jian", "chi", "bu", "chao", "guo", "1", ",", "2", "3", "4", ".", "5", "wan", "gu", "de", "gong", "gao">>),
      secCode |-> PyStr(<<"6", "0", "0", "0", "0", "7">>), secName |-> PyStr(<<"D">>),
      adjunctUrl |-> PyStr(<<"2", "0", "2", "5", "-", "0", "1", "-", "1", "5", "/", "8", ".", "h", "t", "m", "l">>), announcementTime |-> PyInt(20103)],
     [announcementId    |-> PyStr(<<"1", "0", "0", "9">>),
      announcementTitle |-> PyStr(<<"guan", "yu", "gu", "dong", "zeng", "chi", "de", "gong", "gao", "\n">>),
      secName |-> PyStr(<<"E">>),
      adjunctUrl |-> PyStr(<<"2", "0", "2", "5", "-", "0", "1", "-", "1", "5", "/", "9", ".", "p", "d", "f">>), announcementTime |-> PyInt(20103)],
     [announcementId    |-> PyStr(<<"1", "0", "1", "0">>),
      announcementTitle |-> PyStr(<<"guan", "yu", "gu", "dong", "da", "zong", "jiao", "yi", "shou3", "rang", "gu", "fen", "ji7", "si", "fa2", "pai", "mai", "suo", "de2", "gu", "fen", "ni", "jian", "chi", "de", "yu2", "pi", "lu", "gong", "gao">>),
      secCode |-> PyStr(<<"6", "0", "0", "0", "0", "9">>), secName |-> PyStr(<<"F">>),
      adjunctUrl |-> PyInt(0), announcementTime |-> PyInt(20103)],
     [announcementId    |-> PyStr(<<"1", "0", "1", "1">>),
      announcementTitle |-> PyStr(<<"guan", "yu", "kong", "gu", "gu", "dong", "zhang", "san", "xian2", "sheng", "ni", "tong", "guo", "ji2", "zhong", "jing", "jia", "jian", "chi", "bu", "chao", "guo", "1", ".", "2", "0", "%", "gu", "fen", "de", "gong", "gao">>),
      secCode |-> PyStr(<<"6", "0", "0", "0", "1", "0">>), secName |-> PyStr(<<"A">>),
      adjunctUrl |-> PyStr(<<"2", "0", "2", "5", "-", "0", "1", "-", "1", "5", "/", "1", "3", ".", "p", "d", "f">>), announcementTime |-> PyInt(20103)],
     [announcementId    |-> PyStr(<<>>),
      announcementTitle |-> PyStr(<<"gu", "dong", "jian", "chi", "gu", "fen", "ji", "hua", "gong", "gao">>),
      secCode |-> PyStr(<<"6", "0", "0", "0", "1", "1">>), secName |-> PyStr(<<"B">>),
      adjunctUrl |-> PyStr(<<"2", "0", "2", "5", "-", "0", "1", "-", "1", "5", "/", "1", "4", ".", "P", "D", "F">>), announcementTime |-> PyInt(20103)] >>

\* An announcement's fields
Ann(a) == Anns[a]

\* The announcements the endpoint can return in a fetch, and in a pipeline run
FetchPool == {1, 2, 3, 4, 14}

RunPool == {1, 3, 5, 6, 13}

(***************************************************************************)
(* CNInfoFetcher: the title filter                                         *)
(***************************************************************************)

\* The title test; raises TypeError for a title that is no string
\* ("kw in title" on None or a number).
_is_reduction_title_raises(title) == title.type # "str"

\* A faulty title test that looks at the keywords only: it keeps a title
\* that matches an exclusion pattern
_is_reduction_title_keywords_only(title) ==
  \E k \in 1..Len(reduction_keywords) : Contains(title.val, reduction_keywords[k])

\* _is_reduction_title(title), for a string
_is_reduction_title(title) ==
  LET has_keyword ==
        \E k \in 1..Len(reduction_keywords) : Contains(title.val, reduction_keywords[k])
  IN  IF ~has_keyword THEN FALSE
      ELSE ~\E p \in 1..Len(title_exclude_patterns) :
              ReMatch(title_exclude_patterns[p], title.val)

\* The titles filter_by_title tests: ann.get("announcementTitle", "")
TitleOf(ann) == Get(Ann(ann), "announcementTitle", PyStr(<<>>))

\* The title test of the announcements 1..n of the model
RECURSIVE TitleTests(_)
TitleTests(n) ==
  IF n = 0 THEN <<>>
  ELSE Append(TitleTests(n - 1),
              IF _is_reduction_title_raises(TitleOf(n)) THEN "raises"
              ELSE IF _is_reduction_title(TitleOf(n)) THEN "keep" ELSE "drop")

TitleTest == TitleTests(Len(Anns))

\* seq reversed
Reverse(s) == [k \in 1..Len(s) |-> s[Len(s) + 1 - k]]

\* A faulty filter that inserts at the head of its result (result.insert(0,
\* ann)): it keeps the right announcements in the wrong order
filter_by_title_inserts_at_head(announcements) ==
  IF \E i \in 1..Len(announcements) : TitleTest[announcements[i]] = "raises"
  THEN [exc |-> "TypeError", val |-> <<>>]
  ELSE [exc |-> "",
        val |-> Reverse(SelectSeq(announcements, LAMBDA ann : TitleTest[ann] = "keep"))]

\* filter_by_title(announcements): exc is the exception raised ("" for none),
\* val the list returned
filter_by_title(announcements) ==
  IF \E i \in 1..Len(announcements) : TitleTest[announcements[i]] = "raises"
  THEN [exc |-> "TypeError", val |-> <<>>]
  ELSE [exc |-> "",
        val |-> SelectSeq(announcements, LAMBDA ann : TitleTest[ann] = "keep")]
(***************************************************************************)
(* Helpers of the module: build_cninfo_url, ms_timestamp_to_date           *)
(***************************************************************************)

\* build_cninfo_url(adjunct_url) raises AttributeError when adjunct_url is
\* truthy and has no strip() method.
build_cninfo_url_raises(adjunct_url) ==
  Truthy(adjunct_url) /\ adjunct_url.type # "str"

\* build_cninfo_url(adjunct_url), when it does not raise
build_cninfo_url(adjunct_url) ==
  IF Truthy(adjunct_url) /\ Strip(adjunct_url.val) # <<>>
  THEN <<"h", "t", "t", "p", ":", "/", "/", "s", "t", "a", "t", "i", "c", ".", "c", "n", "i", "n", "f", "o", ".", "c", "o", "m", ".", "c", "n", "/", "f", "i", "n", "a", "l", "p", "a", "g", "e", "/">> \o Strip(adjunct_url.val)
  ELSE <<"N", "/", "A">>

\* The digits of a natural number; at least `width` of them.
RECURSIVE Digits(_, _)
Digits(n, width) ==
  IF n < 10 /\ width <= 1 THEN <<ToString(n)>>
  ELSE Append(Digits(n \div 10, width - 1), ToString(n % 10))

\* The civil date of day number z (days since 1970-01-01), as <<y, m, d>>.
CivilFromDays(z) ==
  LET z1  == z + 719468
      era == z1 \div 146097
      doe == z1 - era * 146097
      yoe == (doe - doe \div 1460 + doe \div 36524 - doe \div 146096) \div 365
      doy == doe - (365 * yoe + yoe \div 4 - yoe \div 100)
      mp  == (5 * doy + 2) \div 153
      d   == doy - (153 * mp + 2) \div 5 + 1
      m   == IF mp < 10 THEN mp + 3 ELSE mp - 9
      y   == yoe + era * 400 + (IF m <= 2 THEN 1 ELSE 0)
  IN  <<y, m, d>>

\* ms_timestamp_to_date(ts_ms).  An integer timestamp is held as its whole
\* number of days (ts_ms // 86,400,000: the part the date depends on, for a
\* process whose local time is UTC); any other value fails int() and gives
\* "N/A".
ms_timestamp_to_date(ts_ms) ==
  IF ts_ms.type = "int"
  THEN LET c == CivilFromDays(ts_ms.val)
       IN  Digits(c[1], 4) \o <<"-">> \o Digits(c[2], 2) \o <<"-">> \o Digits(c[3], 2)
  ELSE <<"N", "/", "A">>

(***************************************************************************)
(* ReductionFieldExtractor                                                 *)
(***************************************************************************)

\* (\d+\.?\d*)\s*%
RatioNumber ==
  Cat(<<Group(Cat(<<Plus(In(Digit)), Opt(In({"."})), Star(In(Digit))>>)),
        Star(In(Space)), In({"%"})>>)

\*  r"不超过.*?总股本(?:的|比例约?|比)?[\s：:]*(\d+\.?\d*)\s*%"
\*  r"占.*?总股本.*?(\d+\.?\d*)\s*%"
\*  r"总股本比例.*?(\d+\.?\d*)\s*%"
\*  r"减持比例.*?(\d+\.?\d*)\s*%"
\*  r"(\d+\.?\d*)\s*%.*?总股本"
\*  r"合计不超过.*?(\d+\.?\d*)\s*%"
_RATIO_PATTERNS ==
  << Cat(<<Lit(<<"bu", "chao", "guo">>), StarLazy(Dot), Lit(<<"zong2", "gu", "ben">>),
           Opt(Alt(<<Lit(<<"de">>), Cat(<<Lit(<<"bi", "li">>), Opt(Lit(<<"yue">>))>>), Lit(<<"bi">>)>>)),
           Star(In(Space \cup {"fcolon", ":"})), RatioNumber>>),
     Cat(<<Lit(<<"zhan2">>), StarLazy(Dot), Lit(<<"zong2", "gu", "ben">>), StarLazy(Dot), RatioNumber>>),
     Cat(<<Lit(<<"zong2", "gu", "ben", "bi", "li">>), StarLazy(Dot), RatioNumber>>),
     Cat(<<Lit(<<"jian", "chi", "bi", "li">>), StarLazy(Dot), RatioNumber>>),
     Cat(<<RatioNumber, StarLazy(Dot), Lit(<<"zong2", "gu", "ben">>)>>),
     Cat(<<Lit(<<"he", "ji", "bu", "chao", "guo">>), StarLazy(Dot), RatioNumber>>) >>

\* (\d[\d,，]*(?:\.\d+)?)
QtyNumber ==
  Group(Cat(<<In(Digit), Star(In(Digit \cup {",", "fcomma"})),
              Opt(Cat(<<In({"."}), Plus(In(Digit))>>))>>))

\* (\d[\d,，]*)
QtyInteger == Group(Cat(<<In(Digit), Star(In(Digit \cup {",", "fcomma"}))>>))

\*  (r"不超过\s*(\d[\d,，]*(?:\.\d+)?)\s*万\s*股",     "wan"),
\*  (r"合计不超过\s*(\d[\d,，]*(?:\.\d+)?)\s*万\s*股", "wan"),
\*  (r"减持\s*(\d[\d,，]*(?:\.\d+)?)\s*万\s*股",       "wan"),
\*  (r"不超过\s*(\d[\d,，]*)\s*股",                    "share"),
\*  (r"(\d[\d,，]*(?:\.\d+)?)\s*万股",                 "wan"),
_QTY_PATTERNS ==
  << [pat |-> Cat(<<Lit(<<"bu", "chao", "guo">>), Star(In(Space)), QtyNumber, Star(In(Space)),
                    Lit(<<"wan">>), Star(In(Space)), Lit(<<"gu">>)>>), unit |-> "wan"],
     [pat |-> Cat(<<Lit(<<"he", "ji", "bu", "chao", "guo">>), Star(In(Space)), QtyNumber, Star(In(Space)),
                    Lit(<<"wan">>), Star(In(Space)), Lit(<<"gu">>)>>), unit |-> "wan"],
     [pat |-> Cat(<<Lit(<<"jian", "chi">>), Star(In(Space)), QtyNumber, Star(In(Space)),
                    Lit(<<"wan">>), Star(In(Space)), Lit(<<"gu">>)>>), unit |-> "wan"],
     [pat |-> Cat(<<Lit(<<"bu", "chao", "guo">>), Star(In(Space)), QtyInteger, Star(In(Space)),
                    Lit(<<"gu">>)>>), unit |-> "share"],
     [pat |-> Cat(<<QtyNumber, Star(In(Space)), Lit(<<"wan", "gu">>)>>), unit |-> "wan"] >>

\* The categories in the order of the dictionary, each with its triggers.
_METHOD_MAP ==
  << [name |-> <<"da", "zong", "jiao", "yi">>, kws |-> << <<"da", "zong", "jiao", "yi">> >>],
     [name |-> <<"ji2", "zhong", "jing", "jia">>, kws |-> << <<"ji2", "zhong", "jing", "jia">>, <<"er", "ji3", "shi", "chang", "jing", "jia">> >>],
     [name |-> <<"xie", "yi2", "zhuan", "rang">>, kws |-> << <<"xie", "yi2", "zhuan", "rang">>, <<"xie", "yi2", "fang", "shi2">> >>],
     [name |-> <<"xun", "jia", "zhuan", "rang">>, kws |-> << <<"xun", "jia", "zhuan", "rang">> >>],
     [name |-> <<"ding", "xiang", "zhuan", "rang">>, kws |-> << <<"ding", "xiang", "zhuan", "rang">>, <<"fei", "jiao", "yi", "guo", "hu">> >>],
     [name |-> <<"er", "ji3", "shi", "chang">>, kws |-> << <<"er", "ji3", "shi", "chang">> >>] >>

_SOURCE_MAP ==
  << [name |-> <<"I", "P", "O", " ", "qian", "qu", "de2">>,
      kws |-> << <<"shou", "ci", "gong", "kai", "fa", "xing", "qian">>, <<"shang", "shi", "qian">>, <<"I", "P", "O", "qian">>, <<"fa", "xing", "qian", "chi", "you">>, <<"yuan", "shi3", "gu">> >>],
     [name |-> <<"ding", "xiang", "zeng", "fa", "qu", "de2">>,
      kws |-> << <<"ding", "xiang", "zeng", "fa">>, <<"fei", "gong", "kai", "fa", "xing">>, <<"ding", "zeng", "qu", "de2">> >>],
     [name |-> <<"gu", "quan", "ji4", "li2", "qu", "de2">>,
      kws |-> << <<"gu", "quan", "ji4", "li2">>, <<"xian", "zhi", "xing2", "gu", "piao">>, <<"gu", "piao", "qi", "quan">>, <<"ji4", "li2", "ji", "hua", "shou2", "yu3">> >>],
     [name |-> <<"yuan2", "gong2", "chi", "gu", "ji", "hua">>, kws |-> << <<"yuan2", "gong2", "chi", "gu", "ji", "hua">>, <<"E", "S", "O", "P">> >>],
     [name |-> <<"da", "zong", "jiao", "yi", "shou3", "rang">>,
      kws |-> << <<"da", "zong", "jiao", "yi", "shou3", "rang">>, <<"shou3", "rang", "qu", "de2">>, <<"shou3", "rang", "gu", "fen">> >>],
     [name |-> <<"qi3", "ta">>, kws |-> << <<"ji5", "cheng">>, <<"zeng2", "yu4">>, <<"si", "fa2", "pai", "mai">>, <<"jing", "pai">> >>] >>

\* [一-龥A-Za-z0-9（()）\-·]
HolderChar == Han \cup Latin \cup Digit \cup {"flpar", "(", ")", "frpar", "-", "mdot"}

\*  r"关于([一-龥A-Za-z0-9（()）\-·%\.]+?)(?:拟|计划|将)(?:通过)?(?:大宗|集中|协议|询价|二级|减持|出售)"
\*  r"关于([一-龥A-Za-z0-9（()）\-·%\.]+?)(?:持股\d+%以上|控股|实控人|董事|监事|高管)"
\*  r"([一-龥A-Za-z0-9（()）\-·]+?(?:有限公司|股份有限公司|合伙企业|基金|中心))(?:.*?)(?:拟|计划)减持"
\*  r"([一-龥]{2,4}(?:先生|女士)).*?(?:拟|计划)减持"
\*  r"关于([一-龥A-Za-z0-9（()）\-·%]{2,20}?)拟"
_HOLDER_PATTERNS ==
  << Cat(<<Lit(<<"guan", "yu">>), Group(PlusLazy(In(HolderChar \cup {"%", "."}))),
           Alt(<<Lit(<<"ni">>), Lit(<<"ji", "hua">>), Lit(<<"jiang">>)>>), Opt(Lit(<<"tong", "guo">>)),
           Alt(<<Lit(<<"da", "zong">>), Lit(<<"ji2", "zhong">>), Lit(<<"xie", "yi2">>), Lit(<<"xun", "jia">>), Lit(<<"er", "ji3">>),
                 Lit(<<"jian", "chi">>), Lit(<<"chu", "shou4">>)>>)>>),
     Cat(<<Lit(<<"guan", "yu">>), Group(PlusLazy(In(HolderChar \cup {"%", "."}))),
           Alt(<<Cat(<<Lit(<<"chi", "gu">>), Plus(In(Digit)), Lit(<<"%", "yi3", "shang">>)>>), Lit(<<"kong", "gu">>),
                 Lit(<<"shi4", "kong", "ren">>), Lit(<<"dong2", "shi5">>), Lit(<<"jian2", "shi5">>), Lit(<<"gao2", "guan2">>)>>)>>),
     Cat(<<Group(Cat(<<PlusLazy(In(HolderChar)),
                       Alt(<<Lit(<<"you", "xian", "gong", "si">>), Lit(<<"gu", "fen", "you", "xian", "gong", "si">>), Lit(<<"he", "huo", "qi2", "ye">>),
                             Lit(<<"ji6", "jin2">>), Lit(<<"zhong", "xin">>)>>)>>)),
           StarLazy(Dot), Alt(<<Lit(<<"ni">>), Lit(<<"ji", "hua">>)>>), Lit(<<"jian", "chi">>)>>),
     Cat(<<Group(Cat(<<Rep(In(Han), 2, 4), Alt(<<Lit(<<"xian2", "sheng">>), Lit(<<"nv", "shi6">>)>>)>>)),
           StarLazy(Dot), Alt(<<Lit(<<"ni">>), Lit(<<"ji", "hua">>)>>), Lit(<<"jian", "chi">>)>>),
     Cat(<<Lit(<<"guan", "yu">>), Group(RepLazy(In(HolderChar \cup {"%"}), 2, 20)), Lit(<<"ni">>)>>) >>

\* A faulty search that prefers the later patterns: the last pattern of pats,
\* from the k-th on, that is found in text; 0 if none
LastFound(pats, k, text) ==
  IF \A j \in k..Len(pats) : ~ReFound(pats[j], text) THEN 0
  ELSE CHOOSE j \in k..Len(pats) :
         /\ ReFound(pats[j], text)
         /\ \A i \in (j + 1)..Len(pats) : ~ReFound(pats[i], text)

\* The first pattern of pats, from the k-th on, that is found in text; 0 if none
RECURSIVE FirstFound(_, _, _)
FirstFound(pats, k, text) ==
  IF k > Len(pats) THEN 0
  ELSE IF ReFound(pats[k], text) THEN k ELSE FirstFound(pats, k + 1, text)

\* The capture of the k-th ratio pattern, stripped; nothing for k = 0
RatioBy(k, text) ==
  IF k = 0 THEN <<>> ELSE Strip(ReGroup1(_RATIO_PATTERNS[k], text))

\* _extract_ratio(text): "\d+\.?\d*" always parses as a float, so the first
\* pattern found returns its capture
_extract_ratio(text) == RatioBy(FirstFound(_RATIO_PATTERNS, 1, text), text)

\* The value of a sequence of digits.
RECURSIVE DigitsValue(_)
DigitsValue(ds) ==
  IF ds = <<>> THEN 0
  ELSE 10 * DigitsValue(SubSeq(ds, 1, Len(ds) - 1))
       + (CHOOSE n \in 0..9 : ToString(n) = ds[Len(ds)])

RECURSIVE Pow10(_)
Pow10(n) == IF n = 0 THEN 1 ELSE 10 * Pow10(n - 1)

\* str.rstrip(chars)
RECURSIVE RStripChars(_, _)
RStripChars(s, chars) ==
  IF s # <<>> /\ s[Len(s)] \in chars
  THEN RStripChars(SubSeq(s, 1, Len(s) - 1), chars) ELSE s

\* float(raw), then / 10000 for the plain-share unit, then
\* f"{qty:.4f}".rstrip("0").rstrip("."): the value is computed in units of
\* 1/10000; a raw amount with more than 4 decimals is rounded to the nearest
\* (amounts whose 5th decimal onward is exactly a half are not drawn).
FormatQuantity(raw, unit) ==
  LET dot   == IF "." \in {raw[i] : i \in 1..Len(raw)}
               THEN CHOOSE i \in 1..Len(raw) : raw[i] = "." ELSE Len(raw) + 1
      ip    == DigitsValue(SubSeq(raw, 1, dot - 1))
      fr    == SubSeq(raw, dot + 1, Len(raw))
      fr5   == SubSeq(fr \o <<"0", "0", "0", "0", "0">>, 1, 5)
      wanE4 == ip * 10000 + DigitsValue(SubSeq(fr5, 1, 4))
                 + (IF DigitsValue(<<fr5[5]>>) >= 5 THEN 1 ELSE 0)
      e4    == IF unit = "share" THEN ip ELSE wanE4
      s     == Digits(e4 \div 10000, 1) \o <<".">> \o Digits(e4 % 10000, 4)
  IN  RStripChars(RStripChars(s, {"0"}), {"."})

\* The patterns of _QTY_PATTERNS
QtyPats == [k \in 1..Len(_QTY_PATTERNS) |-> _QTY_PATTERNS[k].pat]

\* A faulty conversion that takes every amount as plain shares
QuantityBy_unit_ignored(k, text) ==
  IF k = 0 THEN <<>>
  ELSE FormatQuantity(SelectSeq(ReGroup1(QtyPats[k], text),
                                LAMBDA c : c \notin {",", "fcomma"}),
                      "share")

\* The capture of the k-th quantity pattern without its separators, in the
\* unit of 10000 shares; nothing for k = 0
QuantityBy(k, text) ==
  IF k = 0 THEN <<>>
  ELSE FormatQuantity(SelectSeq(ReGroup1(QtyPats[k], text),
                                LAMBDA c : c \notin {",", "fcomma"}),
                      _QTY_PATTERNS[k].unit)

\* _extract_quantity(text): the capture without its separators always parses
\* as a float
_extract_quantity(text) == QuantityBy(FirstFound(QtyPats, 1, text), text)

\* "、".join(found)
RECURSIVE Join(_)
Join(names) ==
  IF names = <<>> THEN <<>>
  ELSE IF Len(names) = 1 THEN names[1]
  ELSE names[1] \o <<"dun">> \o Join(Tail(names))

\* A faulty match that stops at the first category that has a trigger
FoundCategories_first(map, text) ==
  LET hit == SelectSeq(map, LAMBDA e : \E j \in 1..Len(e.kws) : Contains(text, e.kws[j]))
  IN  IF hit = <<>> THEN <<>> ELSE <<hit[1].name>>

\* The names of the categories of map that have a trigger in text, in the
\* order of the map.
FoundCategories(map, text) ==
  LET hit == SelectSeq(map, LAMBDA e : \E j \in 1..Len(e.kws) : Contains(text, e.kws[j]))
  IN  [k \in 1..Len(hit) |-> hit[k].name]

_extract_methods(text) == Join(FoundCategories(_METHOD_MAP, text))

_extract_source(text) == Join(FoundCategories(_SOURCE_MAP, text))

\* A faulty choice that leaves out the test of the length
FirstHolder_any_length(k, text) == FirstFound(_HOLDER_PATTERNS, k, text)

\* The first pattern, from the k-th on, that is found with a capture of 2 to
\* 25 characters; 0 if none
RECURSIVE FirstHolder(_, _)
FirstHolder(k, text) ==
  IF k > Len(_HOLDER_PATTERNS) THEN 0
  ELSE IF /\ ReFound(_HOLDER_PATTERNS[k], text)
          /\ Len(Strip(ReGroup1(_HOLDER_PATTERNS[k], text))) \in 2..25
       THEN k ELSE FirstHolder(k + 1, text)

\* The capture of the k-th holder pattern, stripped; nothing for k = 0
HolderBy(k, text) ==
  IF k = 0 THEN <<>> ELSE Strip(ReGroup1(_HOLDER_PATTERNS[k], text))

_extract_holder(text) == HolderBy(FirstHolder(1, text), text)

\* The five strategies, by the field they fill
Strategy(field, text) ==
  CASE field = "holder"   -> _extract_holder(text)
    [] field = "ratio"    -> _extract_ratio(text)
    [] field = "quantity" -> _extract_quantity(text)
    [] field = "method"   -> _extract_methods(text)
    [] field = "source"   -> _extract_source(text)

\* return result if result else "需人工核实"
OrSentinel(result) == IF result # <<>> THEN result ELSE Sentinel

\* _safe(func, text): a strategy raises TypeError on a text that is no
\* string (re.search and "kw in text"); any exception and any empty result
\* give the sentinel
_safe(field, text) ==
  IF text.type # "str" THEN Sentinel ELSE OrSentinel(Strategy(field, text.val))

\* str(v)
PyToStr(v) ==
  CASE v.type = "str" -> v.val
    [] v.type = "NoneType" -> <<"N", "o", "n", "e">>
    [] OTHER -> Digits(v.val, 1)

\* str.zfill(width), for a text without a sign
RECURSIVE ZFill(_, _)
ZFill(s, width) == IF Len(s) >= width THEN s ELSE ZFill(<<"0">> \o s, width)

\* The five derived fields of a record:
\*   holder "减持股东", ratio "拟减持比例(%)", quantity "拟减持数量(万股)",
\*   method "减持方式", source "股份来源"
DerivedFields == {"holder", "ratio", "quantity", "method", "source"}

\* The raw fields of a record:
\*   date "公告日期", code "股票代码", name "股票简称", title "公告标题",
\*   link "公告原文链接"
RawFields == {"date", "code", "name", "title", "link"}

\* extract(announcement) raises when build_cninfo_url does: nothing else in
\* it can (dict.get, str and ms_timestamp_to_date do not, _safe catches).
extract_raises(announcement) ==
  build_cninfo_url_raises(Get(Ann(announcement), "adjunctUrl", PyStr(<<>>)))

\* extract(announcement), when it does not raise
extract(announcement) ==
  LET title == Get(Ann(announcement), "announcementTitle", PyStr(<<>>))
  IN  [date     |-> ms_timestamp_to_date(Get(Ann(announcement), "announcementTime", PyInt(0))),
       code     |-> ZFill(PyToStr(Get(Ann(announcement), "secCode", PyStr(<<>>))), 6),
       name     |-> Get(Ann(announcement), "secName", PyStr(<<>>)),
       holder   |-> _safe("holder", title),
       ratio    |-> _safe("ratio", title),
       quantity |-> _safe("quantity", title),
       method   |-> _safe("method", title),
       source   |-> _safe("source", title),
       title    |-> title,
       link     |-> build_cninfo_url(Get(Ann(announcement), "adjunctUrl", PyStr(<<>>)))]

\* extract of the announcements 1..n of the model (<<>> where it raises)
RECURSIVE Extracts(_)
Extracts(n) ==
  IF n = 0 THEN <<>>
  ELSE Append(Extracts(n - 1), IF extract_raises(n) THEN <<>> ELSE extract(n))

Extracted == Extracts(Len(Anns))

(***************************************************************************)
(* PDFEnhancer                                                             *)
(***************************************************************************)

\* str.lower() of one character
LowerChar(c) ==
  LET up == <<"A", "B", "C", "D", "E", "F", "G", "H", "I", "J", "K", "L", "M",
              "N", "O", "P", "Q", "R", "S", "T", "U", "V", "W", "X", "Y", "Z">>
      lo == <<"a", "b", "c", "d", "e", "f", "g", "h", "i", "j", "k", "l", "m",
              "n", "o", "p", "q", "r", "s", "t", "u", "v", "w", "x", "y", "z">>
  IN  IF \E k \in 1..26 : up[k] = c THEN lo[CHOOSE k \in 1..26 : up[k] = c] ELSE c

\* str.lower()
Lower(s) == [k \in 1..Len(s) |-> LowerChar(s[k])]

\* str.endswith(suffix)
EndsWith(s, suffix) ==
  Len(s) >= Len(suffix) /\ SubSeq(s, Len(s) - Len(suffix) + 1, Len(s)) = suffix

\* The texts the document host can return for the first pages of a document
PdfTexts ==
  { <<"he", "ji", "bu", "chao", "guo", " ", "2", ".", "5", "0", " ", "%", "fcomma", "jian", "chi", " ", "3", "0", "0", " ", "wan", " ", "gu", "fcomma", "er", "ji3", "shi", "chang", "jing", "jia", "fcomma", "gu", "quan", "ji4", "li2", "qu", "de2", "ji7", "E", "S", "O", "P">>,
    <<"guan", "yu", "mou", "mou", "you", "xian", "gong", "si", "ni", "tong", "guo", "da", "zong", "jiao", "yi", "huo2", "ji2", "zhong", "jing", "jia", "jian", "chi", "bu", "chao", "guo", "1", ",", "2", "3", "4", ".", "5", "wan", "gu", "de", "gong", "gao", "\n", "hu2", "shi", "gong", "gao">>,
    <<>> }

\* The five strategies on the texts of the model
RECURSIVE PdfSafes(_)
PdfSafes(texts) ==
  IF texts = {} THEN << >>
  ELSE LET text == CHOOSE t \in texts : TRUE
       IN  (text :> [holder   |-> _safe("holder", PyStr(text)),
                     ratio    |-> _safe("ratio", PyStr(text)),
                     quantity |-> _safe("quantity", PyStr(text)),
                     method   |-> _safe("method", PyStr(text)),
                     source   |-> _safe("source", PyStr(text))])
           @@ PdfSafes(texts \ {text})

PdfSafe == PdfSafes(PdfTexts)

\* A faulty parse that leaves out the test of the existing value: it
\* overwrites a field the title resolved
_parse_pdf_text_overwrites(text, existing) ==
  LET fill == {f \in DerivedFields : PdfSafe[text][f] # Sentinel}
  IN  [f \in fill |-> PdfSafe[text][f]]

\* _parse_pdf_text(text, existing): the fields to update, with their values
_parse_pdf_text(text, existing) ==
  LET fill == {f \in DerivedFields :
                 existing[f] = Sentinel /\ PdfSafe[text][f] # Sentinel}
  IN  [f \in fill |-> PdfSafe[text][f]]

\* A faulty guard that leaves out the tests of the link: a download is issued
\* for any record
enhance_downloads_any_link(_available, record) == _available

\* Whether enhance_record(record) issues the download: the capability is
\* there and the link is a document reference
enhance_downloads(_available, record) ==
  /\ _available
  /\ record.link # <<>>
  /\ record.link # <<"N", "/", "A">>
  /\ EndsWith(Lower(record.link), <<".", "p", "d", "f">>)

\* The outcome of a download and parse: a failure, or the text of the
\* document's first pages
DownloadFailed == [ok |-> FALSE, text |-> <<>>]

Downloaded(text) == [ok |-> TRUE, text |-> text]

\* enhance_record(record): the empty update set without a download, and
\* when the download or the parse raises
enhance_record(_available, record, download) ==
  IF ~enhance_downloads(_available, record) THEN << >>
  ELSE IF ~download.ok THEN << >>
  ELSE _parse_pdf_text(download.text, record)

\* rec.update(extra)
Update(rec, extra) ==
  [k \in DOMAIN rec \cup DOMAIN extra |->
     IF k \in DOMAIN extra THEN extra[k] ELSE rec[k]]

(***************************************************************************)
(* MarketDataFetcher                                                       *)
(***************************************************************************)

\* _CACHE_TTL_SECONDS = 1800
_CACHE_TTL_SECONDS == 1800

\* By how many seconds the clock advances between two steps of a process
ClockSteps == {1, 899, 900}

\* A number that can be missing (None, NaN): <<>> or <<n>>
Null == << >>

\* A row of the snapshot after its columns are renamed and scaled: the
\* code, the latest price, the market cap and the float cap in 亿元
Quote(code, price, cap, float_cap) ==
  [code |-> code, price |-> <<price>>, cap |-> <<cap>>, float_cap |-> <<float_cap>>]

\* The snapshots ak.stock_zh_a_spot_em() can return; the last one lists an
\* instrument twice (the remote listing is paged while it changes, and
\* nothing in the program removes a repeated row)
Snapshots ==
  { << Quote(<<"0", "0", "0", "0", "0", "1">>, 12, 10, 8), Quote(<<"6", "0", "0", "0", "0", "0">>, 9, 50, 40),
       Quote(<<"6", "0", "0", "0", "0", "1">>, 7, 30, 20), Quote(<<"6", "0", "0", "0", "0", "7">>, 5, 30, 10) >>,
    << Quote(<<"0", "0", "0", "0", "0", "1">>, 13, 30, 9) >>,
    << Quote(<<"0", "0", "0", "0", "0", "1">>, 12, 10, 8), Quote(<<"0", "0", "0", "0", "0", "1">>, 12, 10, 8) >> }

\* What a call of ak.stock_zh_a_spot_em() can give: an exception (<<>>, the
\* package is missing or the request fails) or a snapshot
MarketOutcomes == {<< >>} \cup {<<s>> : s \in Snapshots}

\* The code lists a lookup can ask for
CodeLists == { <<<<"0", "0", "0", "0", "0", "1">>>>, <<<<"6", "0", "0", "0", "0", "0">>, <<"1">>>>, <<<<"3", "0", "0", "0", "0", "1">>>> }

\* A faulty test of the cache that leaves out its age
CacheFresh_any_age(cache_df, cache_ts, t) == cache_df # << >> /\ cache_ts # << >>

\* The test of _load_all_market_data: there is a cached snapshot, younger
\* than the validity window
CacheFresh(cache_df, cache_ts, t) ==
  /\ cache_df # << >>
  /\ cache_ts # << >>
  /\ t - cache_ts[1] < _CACHE_TTL_SECONDS

\* A faulty load that stamps the time of the fetch before the call, so that
\* a failed call renews the time of the snapshot it holds
_load_all_market_data_stamps_first(cache_df, cache_ts, t, outcome) ==
  IF CacheFresh(cache_df, cache_ts, t)
  THEN [df |-> cache_df[1], cache_df |-> cache_df, cache_ts |-> cache_ts,
        called |-> FALSE, ok |-> TRUE]
  ELSE IF outcome = << >>
  THEN [df |-> << >>, cache_df |-> cache_df, cache_ts |-> <<t>>,
        called |-> TRUE, ok |-> FALSE]
  ELSE [df |-> outcome[1], cache_df |-> outcome, cache_ts |-> <<t>>,
        called |-> TRUE, ok |-> TRUE]

\* _load_all_market_data() at time t on a fetcher with the given fields,
\* when the external call, if issued, gives outcome: the frame returned, the
\* fields afterwards, whether the call was issued
_load_all_market_data(cache_df, cache_ts, t, outcome) ==
  IF CacheFresh(cache_df, cache_ts, t)
  THEN [df |-> cache_df[1], cache_df |-> cache_df, cache_ts |-> cache_ts,
        called |-> FALSE, ok |-> TRUE]
  ELSE IF outcome = << >>
  THEN [df |-> << >>, cache_df |-> cache_df, cache_ts |-> cache_ts,
        called |-> TRUE, ok |-> FALSE]
  ELSE [df |-> outcome[1], cache_df |-> outcome, cache_ts |-> <<t>>,
        called |-> TRUE, ok |-> TRUE]

\* normalized = [str(c).zfill(6) for c in stock_codes]
Normalized(stock_codes) == {ZFill(stock_codes[k], 6) : k \in 1..Len(stock_codes)}

\* all_df.loc[all_df["股票代码"].isin(normalized)]
Restricted(all_df, stock_codes) ==
  SelectSeq(all_df, LAMBDA q : q.code \in Normalized(stock_codes))

\* The rows get_market_cap returns from what _load_all_market_data gave
WithCodes(loaded, stock_codes) ==
  [loaded EXCEPT !.df = Restricted(loaded.df, stock_codes)]

\* get_market_cap(stock_codes)
get_market_cap(cache_df, cache_ts, t, outcome, stock_codes) ==
  WithCodes(_load_all_market_data(cache_df, cache_ts, t, outcome), stock_codes)

\* What a lookup did, for the properties
LookupAt(t, stock_codes, cache_df, cache_ts, ok_before, looked) ==
  [at |-> t, codes |-> stock_codes, called |-> looked.called, ok |-> looked.ok,
   df_before |-> cache_df, ts_before |-> cache_ts, ok_before |-> ok_before,
   result |-> looked.df]

(***************************************************************************)
(* ExcelReporter                                                           *)
(***************************************************************************)

\* CONFIG["market_data_delay"]: the seconds slept before the lookup
market_data_delay == 3

\* s with x appended unless s has it
AppendNew(s, x) == IF \E k \in 1..Len(s) : s[k] = x THEN s ELSE Append(s, x)

\* Series.unique().tolist(): the values in order of first appearance
RECURSIVE Unique(_)
Unique(s) ==
  IF s = << >> THEN << >>
  ELSE AppendNew(Unique(SubSeq(s, 1, Len(s) - 1)), s[Len(s)])

\* codes = df["股票代码"].unique().tolist()
CodesOf(df) == Unique([k \in 1..Len(df) |-> df[k].code])

\* The three quote columns "最新收盘价", "总市值(亿元)", "流通市值(亿元)", empty
NoQuotes == [price |-> Null, cap |-> Null, float_cap |-> Null]

\* The three quote columns of a row of the market frame
QuotesOf(q) == [price |-> q.price, cap |-> q.cap, float_cap |-> q.float_cap]

\* The rows a left merge makes of one row: one per row of the market frame
\* with its code, or one with empty quote columns
WithHits(row, hits) ==
  IF hits = << >> THEN <<Update(row, NoQuotes)>>
  ELSE [k \in 1..Len(hits) |-> Update(row, QuotesOf(hits[k]))]

MergedRows(row, mkt_df) ==
  WithHits(row, SelectSeq(mkt_df, LAMBDA q : q.code = row.code))

\* A faulty merge that keeps only the rows that have a quote (how="inner",
\* whatever the market frame)
_merge_market_data_inner(df, mkt_df) ==
  Concat([k \in 1..Len(df) |->
            [j \in 1..Len(SelectSeq(mkt_df, LAMBDA q : q.code = df[k].code)) |->
               Update(df[k], QuotesOf(SelectSeq(mkt_df, LAMBDA q : q.code = df[k].code)[j]))]])

\* _merge_market_data(df), given what get_market_cap(codes) returned
_merge_market_data(df, mkt_df) ==
  IF mkt_df # << >>
  THEN Concat([k \in 1..Len(df) |-> MergedRows(df[k], mkt_df)])
  ELSE [k \in 1..Len(df) |-> Update(df[k], NoQuotes)]

\* The characters of a decimal number
DecimalDigits == {"0", "1", "2", "3", "4", "5", "6", "7", "8", "9"}

\* The text is digits with at most one point, and has a digit
IsDecimal(s) ==
  /\ \E k \in 1..Len(s) : s[k] \in DecimalDigits
  /\ \A k \in 1..Len(s) : s[k] \in DecimalDigits \cup {"."}
  /\ \A j, k \in 1..Len(s) : (s[j] = "." /\ s[k] = ".") => j = k

\* The value in units of 1/10000 of a decimal text of 4 decimals at most
DecimalE4(ip, fr) ==
  DigitsValue(ip) * 10000 + DigitsValue(SubSeq(fr \o <<"0", "0", "0", "0">>, 1, 4))

\* The place of the point of a decimal text, or one past its end
PointOf(s) ==
  IF \E k \in 1..Len(s) : s[k] = "." THEN CHOOSE k \in 1..Len(s) : s[k] = "."
  ELSE Len(s) + 1

\* pd.to_numeric(value, errors="coerce") of a text: its value, in units of
\* 1/10000, or NaN
ToNumeric(s) ==
  IF ~IsDecimal(s) THEN Null
  ELSE <<DecimalE4(SubSeq(s, 1, PointOf(s) - 1), SubSeq(s, PointOf(s) + 1, Len(s)))>>

\* df["_mkt_cap"]: the market cap column is numeric or empty already
MktCapKey(row) == row.cap

\* df["_ratio"]
RatioKey(row) == ToNumeric(row.ratio)

\* A faulty order of one key that puts the missing values first
KeyBefore_missing_first(x, y) ==
  \/ x = Null /\ y # Null
  \/ x # Null /\ y # Null /\ x[1] > y[1]

\* ascending=False, na_position="last" on one key: x sorts before y
KeyBefore(x, y) == x # Null /\ (y = Null \/ x[1] > y[1])

\* sort_values(["_mkt_cap", "_ratio"], ...): row a sorts before row b
SortsBefore(a, b) ==
  \/ KeyBefore(MktCapKey(a), MktCapKey(b))
  \/ MktCapKey(a) = MktCapKey(b) /\ KeyBefore(RatioKey(a), RatioKey(b))

\* The row is put before the first row, from the k-th on, it sorts before
RECURSIVE InsertRow(_, _, _)
InsertRow(sorted, row, k) ==
  IF k > Len(sorted) THEN Append(sorted, row)
  ELSE IF SortsBefore(row, sorted[k])
  THEN SubSeq(sorted, 1, k - 1) \o <<row>> \o SubSeq(sorted, k, Len(sorted))
  ELSE InsertRow(sorted, row, k + 1)

\* DataFrame.sort_values on two keys: the sort is stable, rows that tie on
\* both keys keep their order
RECURSIVE sort_values(_)
sort_values(df) ==
  IF df = << >> THEN << >>
  ELSE InsertRow(sort_values(SubSeq(df, 1, Len(df) - 1)), df[Len(df)], 1)

\* _clean_and_sort(df): the two key columns are added, the rows sorted, the
\* key columns dropped and the index reset
_clean_and_sort(df) == sort_values(df)

\* The rows generate(records, query_date) writes, given what
\* get_market_cap(codes) returned
generate(records_, mkt_df) == _clean_and_sort(_merge_market_data(records_, mkt_df))

(***************************************************************************)
(* Bounds of the model                                                     *)
(***************************************************************************)

\* CONFIG["max_pages"] (15 in the program): the page cap of one keyword
MaxPages == 2

\* The announcements one page of the endpoint holds at most
MaxPageLen == 2

\* The announcements the endpoint returns in one fetch at most
MaxServed == 3

\* The announcements the endpoint returns in one pipeline run at most
MaxServedRun == 2

\* The announcements given to the title filter at most
MaxFilterLen == 3

(***************************************************************************)
(* The environment: what the query endpoint and the document host return   *)
(***************************************************************************)

\* "pageSize": 30, and the 30 of "page * 30 >= total"
PageSize == 30

\* search_terms = ["减持股份", "减持计划", "拟减持"]
search_terms == << <<"jian", "chi", "gu", "fen">>, <<"jian", "chi", "ji", "hua">>, <<"ni", "jian", "chi">> >>

\* The run's query_date
QueryDate == <<"2", "0", "2", "5", "-", "0", "1", "-", "1", "5">>

\* The sequences over S of length n at most
SeqUpTo(S, n) == UNION {[1..k -> S] : k \in 0..n}

\* The totals ("totalRecordNum") a body can report: none left, or one more
\* than p full pages; None stands for a value int() rejects.
Totals == {PyInt(0)} \cup {PyInt(PageSize * p + 1) : p \in 1..MaxPages} \cup {PyNone}

Downloads == {DownloadFailed} \cup {Downloaded(t) : t \in PdfTexts}

(***************************************************************************)
(* State of one pipeline run                                               *)
(***************************************************************************)

VARIABLES
  pc,                 \* where run() is
  enable_pdf_enhance, \* ReductionPipeline(enable_pdf_enhance)
  available,          \* PDFEnhancer._available
  pool,               \* the announcements the endpoint can return
  budget,             \* how many it returns at most
  term,               \* index of the search term being queried
  page,               \* page being requested
  attempt,            \* attempt of retry_request
  items,              \* _paginated_query's items
  all_ann,            \* fetch_reduction_announcements' all_ann
  seen_ids,           \* fetch_reduction_announcements' seen_ids
  reduction_ann,      \* the filtered announcements
  records,            \* the records extracted so far
  io,                 \* the requests and sleeps of the last step of the fetch
  returned,             \* what run() returned: "running", "None", a path, or
                      \* "raised" for an exception that left run()
  \* history, read by the properties only
  got,                \* per term, the batches its pages returned, in order
  failed,             \* why the paging of the term was abandoned: "http",
                      \* "json", or "" if it was not
  any_ok,             \* whether some HTTP request succeeded
  raised_in,          \* the stage in which an exception was raised ("" if none)
  extract_failed,     \* the indices of reduction_ann whose extraction raised
  stages,             \* the stages entered, in order
  market_calls,       \* the market snapshot fetches issued
  report_files,       \* the report files written
  \* the title filter on its own
  fpc,                \* "given", "once" (filtered), "twice" (filtered again)
  given,              \* the list given to filter_by_title
  kept,               \* filter_by_title(given)
  kept_again,         \* filter_by_title of the list kept
  \* the record of one announcement on its own
  rpc,                \* "given", "extracted", "enhanced", "updated", "raised"
  one_ann,            \* the announcement
  title_rec,          \* the record extract returned
  one_download,       \* the outcome of the download of its document
  extra_fields,       \* the update set enhance_record returned
  download_calls,     \* the downloads enhance_record issued
  rec_out,            \* the record after rec.update(extra)
  \* the market data of a process
  mpc,                \* "none", or "up" while the process runs
  now,                \* time.time(), in seconds since the process started
  ticks,              \* how many times the clock has advanced
  _cache_df,          \* MarketDataFetcher._cache_df: <<>> for None, <<df>>
  _cache_ts,          \* MarketDataFetcher._cache_ts: <<>> for None, <<t>>
  snapshot_calls,     \* the calls of ak.stock_zh_a_spot_em() so far
  last_ok,            \* when the last of them succeeded: <<>> or <<t>>
  lookup,             \* the last call of get_market_cap, as it went
  report,             \* the last call of ExcelReporter.generate, as it went
  \* the sort of the report rows on its own
  spc,                \* "none", "given", "sorted"
  sort_in,            \* the rows given to _clean_and_sort
  sort_out,           \* the rows it returned
  \* one extraction strategy on its own
  epc,                \* "none", "given", "done"
  etext,              \* the text given to the strategy
  efield,             \* the field whose strategy was applied
  eout,               \* what _safe returned
  \* the daemon
  dpc,                \* "none", "poll", "sleep", "cooldown", "stopped", "killed"
  polls,              \* the calls of schedule.run_pending() so far
  jobs,               \* the runs of _run_scheduled_job so far
  errors,             \* the exceptions the loop has caught and logged
  raised_exc,         \* what the last iteration raised ("" if nothing)
  ended_by,           \* what ended the loop ("" while it runs)
  clock,              \* datetime.now(), in ticks since the day the daemon started
  at_time,            \* the job's at_time: the tick of the day of schedule_time
  next_run,           \* the job's next_run
  running,            \* the pipeline runs in progress
  runs,               \* the pipeline runs started: the scheduled time that
                      \* triggered each, and when it started
  \* the command line entry
  cpc,                \* "none", "start", "parsed", "configured", "constructed",
                      \* "ran", "exited", "daemon", "crashed"
  argv,               \* the options given on the command line
  args,               \* parser.parse_args()
  config_output_dir,  \* CONFIG["output_dir"]
  reporter_output_dir, \* pipeline.reporter.output_dir: <<>> or <<dir>>
  written,            \* the report file the run wrote: <<>> or <<path>>
  exit_status,        \* the argument of sys.exit: <<>> or <<n>>
  \* the batch crawl
  bpc,                \* "none", "crawl", "progress", "delay", "returned"
  company_names,      \* crawl_batch's company_names
  progress_callback,  \* whether a progress_callback was given
  crawl_i,            \* crawl_batch's i
  data,               \* crawl_batch's data: <<>> for None, <<d>>
  results,            \* crawl_batch's results
  trace               \* what crawl_batch has done so far, in order

\* What the run does not change
env == <<enable_pdf_enhance, available, pool, budget>>

pvars ==
  <<pc, env, io, term, page, attempt, items, all_ann,
    seen_ids, reduction_ann, records, returned, got, failed, any_ok,
    raised_in, extract_failed, stages, market_calls, report_files>>

fvars == <<fpc, given, kept, kept_again>>

rvars == <<rpc, one_ann, title_rec, one_download, extra_fields, download_calls, rec_out>>

mvars == <<mpc, now, ticks, _cache_df, _cache_ts, snapshot_calls, last_ok, lookup, report>>

svars == <<spc, sort_in, sort_out>>

evars == <<epc, etext, efield, eout>>

dvars == <<dpc, polls, jobs, errors, raised_exc, ended_by, clock, at_time,
          next_run, running, runs>>

cvars == <<cpc, argv, args, config_output_dir, reporter_output_dir, written,
          exit_status>>

bvars == <<bpc, company_names, progress_callback, crawl_i, data, results, trace>>

\* The command line entry and the batch crawl
zvars == <<cvars, bvars>>

\* The parts that take no step of a run, a filter, a record or a report
yvars == <<svars, evars, dvars, zvars>>

xvars == <<mvars, yvars>>

vars == <<pvars, fvars, rvars, xvars>>

Terms == 1..Len(search_terms)

\* The announcements served so far
RECURSIVE SumLen(_)
SumLen(ss) == IF ss = <<>> THEN 0 ELSE Len(Head(ss)) + SumLen(Tail(ss))

Served == SumLen(Concat([t \in Terms |-> got[t]]))

\* The filter and the record on their own, not in use
NoFilter ==
  /\ fpc = "none"
  /\ given = <<>>
  /\ kept = [exc |-> "", val |-> <<>>]
  /\ kept_again = [exc |-> "", val |-> <<>>]

NoRecord ==
  /\ rpc = "none"
  /\ one_ann = 1
  /\ title_rec = <<>>
  /\ one_download = DownloadFailed
  /\ extra_fields = <<>>
  /\ download_calls = 0
  /\ rec_out = <<>>

\* No call of get_market_cap yet
NoLookup ==
  [at |-> 0, codes |-> <<>>, called |-> FALSE, ok |-> FALSE,
   df_before |-> <<>>, ts_before |-> <<>>, ok_before |-> <<>>,
   result |-> <<>>]

\* No call of generate yet
NoReport == [input |-> <<>>, market |-> "", rows |-> <<>>, path |-> ""]

NoMarket ==
  /\ mpc = "none"
  /\ now = 0 /\ ticks = 0
  /\ _cache_df = <<>> /\ _cache_ts = <<>>
  /\ snapshot_calls = 0
  /\ last_ok = <<>>
  /\ lookup = NoLookup
  /\ report = NoReport

NoSort == spc = "none" /\ sort_in = <<>> /\ sort_out = <<>>

NoStrategy == epc = "none" /\ etext = <<>> /\ efield = "" /\ eout = <<>>

NoDaemon ==
  /\ dpc = "none"
  /\ polls = 0 /\ jobs = 0 /\ errors = 0
  /\ raised_exc = ""
  /\ ended_by = ""
  /\ clock = 0 /\ at_time = 0 /\ next_run = 0
  /\ running = 0
  /\ runs = <<>>

\* No command line
NoArgs == [mode |-> "", date |-> <<>>, time |-> "", pdf |-> FALSE, output_dir |-> ""]

NoMain ==
  /\ cpc = "none"
  /\ argv = <<>>
  /\ args = NoArgs
  /\ config_output_dir = ""
  /\ reporter_output_dir = <<>>
  /\ written = <<>>
  /\ exit_status = <<>>

NoBatch ==
  /\ bpc = "none"
  /\ company_names = <<>>
  /\ progress_callback = FALSE
  /\ crawl_i = 0
  /\ data = <<>>
  /\ results = <<>>
  /\ trace = <<>>

\* Neither the command line entry nor the batch crawl is running
NoOther == NoMain /\ NoBatch

\* Nothing but the pipeline, the filter or the record is running
NoExtra == NoMarket /\ NoSort /\ NoStrategy /\ NoDaemon /\ NoOther

\* Nothing but the command line entry is running
NoExtraButMain == NoMarket /\ NoSort /\ NoStrategy /\ NoDaemon /\ NoBatch

\* Nothing but the batch crawl is running
NoExtraButBatch == NoMarket /\ NoSort /\ NoStrategy /\ NoDaemon /\ NoMain

\* The effect on the fetcher and on the counters of the process of a lookup
\* at time t, on a fetcher with the given fields, that went as looked
Looked(t, stock_codes, cache_df, cache_ts, looked) ==
  /\ _cache_df' = looked.cache_df
  /\ _cache_ts' = looked.cache_ts
  /\ snapshot_calls' = snapshot_calls + (IF looked.called THEN 1 ELSE 0)
  /\ last_ok' = IF looked.called /\ looked.ok THEN <<t>> ELSE last_ok
  /\ lookup' = LookupAt(t, stock_codes, cache_df, cache_ts, last_ok, looked)

\* The state in which run() is called
InitRun ==
  /\ pc = "start"
  /\ term = 1 /\ page = 1 /\ attempt = 1
  /\ items = <<>> /\ all_ann = <<>> /\ seen_ids = {}
  /\ io = <<>>
  /\ reduction_ann = <<>> /\ records = <<>>
  /\ returned = "running"
  /\ got = [t \in Terms |-> <<>>]
  /\ failed = ""
  /\ any_ok = FALSE
  /\ raised_in = ""
  /\ extract_failed = {}
  /\ stages = <<>>
  /\ market_calls = 0
  /\ report_files = 0

(***************************************************************************)
(* ReductionPipeline.run                                                   *)
(***************************************************************************)

\* A faulty except clause that raises the exception again
run_except_reraises == "raised"

\* The except clause of run(): the exception is logged and None returned
run_except == "None"

\* An exception raised inside the try block of run(), in the given stage
Raise(stage) ==
  /\ raised_in' = stage
  /\ returned' = run_except
  /\ pc' = "done"

\* run() starts: step 1, fetch_reduction_announcements(query_date)
Run ==
  /\ pc = "start"
  /\ pc' = "request"
  /\ stages' = <<"Fetch">>
  /\ UNCHANGED <<fvars, rvars, xvars, env, io, term, page, attempt, items,
                 all_ann, seen_ids, reduction_ann, records, returned, got,
                 failed, any_ok, raised_in, extract_failed,
                 market_calls, report_files>>

\* CONFIG["request_delay"] (1.5 s), in milliseconds
request_delay == 1500

\* retry_request's attempt fails: a RequestException, no response
NoResponse == [ok |-> FALSE]

\* The attempt succeeds: whether the body is JSON, the length of its
\* "announcements" and its "totalRecordNum"
Response(json, batch, total) ==
  [ok |-> TRUE, json |-> json, count |-> Len(batch), total |-> total]

\* A request to the query endpoint for a page of a term, and what came back
Post(t, p, resp) == [op |-> "post", term |-> t, page |-> p, resp |-> resp]

\* time.sleep, in milliseconds
Slept(ms) == [op |-> "sleep", ms |-> ms]

\* 2 ** n
RECURSIVE Pow2(_)
Pow2(n) == IF n = 0 THEN 1 ELSE 2 * Pow2(n - 1)

\* A faulty backoff that waits the same time after every attempt
BackoffWait_fixed(n) == 2000

\* wait = 2 ** attempt (seconds), in milliseconds
BackoffWait(n) == 1000 * Pow2(n)

\* retry_request: an attempt before the last one fails; it sleeps
\* 2 ** attempt seconds and tries again
RequestRetry ==
  /\ pc = "request"
  /\ attempt < max_retries
  /\ attempt' = attempt + 1
  /\ io' = <<Post(term, page, NoResponse), Slept(BackoffWait(attempt))>>
  /\ UNCHANGED <<fvars, rvars, xvars, pc, env, term, page, items, all_ann,
                 seen_ids, reduction_ann, records, returned, got, failed, any_ok,
                 raised_in, extract_failed, stages, market_calls, report_files>>

\* A faulty last attempt whose exception leaves retry_request
RequestGivesUpRaises ==
  /\ pc = "request"
  /\ attempt = max_retries
  /\ io' = <<Post(term, page, NoResponse)>>
  /\ Raise("Fetch")
  /\ UNCHANGED <<fvars, rvars, xvars, env, term, page, attempt, items,
                 all_ann, seen_ids, reduction_ann, records, got, failed, any_ok,
                 extract_failed, stages, market_calls, report_files>>

\* A faulty _paginated_query that returns nothing when a page fails
RequestGivesUpDiscards ==
  /\ pc = "request"
  /\ attempt = max_retries
  /\ io' = <<Post(term, page, NoResponse)>>
  /\ failed' = "http"
  /\ items' = <<>>
  /\ pc' = "merge"
  /\ UNCHANGED <<fvars, rvars, xvars, env, term, page, attempt,
                 all_ann, seen_ids, reduction_ann, records, returned, got, any_ok,
                 raised_in, extract_failed, stages, market_calls, report_files>>

\* retry_request: the last attempt fails, it returns None, and
\* _paginated_query stops paging and returns its items
RequestGivesUp ==
  /\ pc = "request"
  /\ attempt = max_retries
  /\ io' = <<Post(term, page, NoResponse)>>
  /\ failed' = "http"
  /\ pc' = "merge"
  /\ UNCHANGED <<fvars, rvars, xvars, env, term, page, attempt, items,
                 all_ann, seen_ids, reduction_ann, records, returned, got, any_ok,
                 raised_in, extract_failed, stages, market_calls, report_files>>

\* A faulty paging that goes on to the page cap whatever the total
next_page_to_cap(p, total) == p < MaxPages

\* A faulty paging that leaves out the sleep between two pages
SleepsAfterPage_never(json, batch, total, p) == FALSE

\* Whether _paginated_query requests another page after a page whose body
\* reports `total` (an integer)
next_page(p, total) == ~(p * PageSize >= total) /\ p < MaxPages

\* Whether _paginated_query reaches the sleep at the end of the turn of the
\* loop for page p: no break was taken (the cap of the pages is tested
\* after the sleep, by the for statement)
SleepsAfterPage(json, batch, total, p) ==
  /\ json
  /\ batch # << >>
  /\ total.type = "int"
  /\ ~(p * PageSize >= total.val)

\* The request succeeds and _paginated_query handles the page: a body that
\* is no JSON, or holds no announcement, ends the paging; so does a covered
\* total, and the page cap; int() of the total may raise.
PageArrives ==
  /\ pc = "request"
  /\ \E json \in BOOLEAN, batch \in SeqUpTo(pool, Min({MaxPageLen, budget - Served})),
        total \in Totals :
       /\ ~json => batch = <<>>
       /\ batch = <<>> => total = PyInt(0)
       /\ any_ok' = TRUE
       /\ io' = <<Post(term, page, Response(json, batch, total))>>
                \o (IF SleepsAfterPage(json, batch, total, page)
                    THEN <<Slept(request_delay)>> ELSE << >>)
       /\ IF ~json
          THEN /\ failed' = "json"
               /\ pc' = "merge"
               /\ UNCHANGED <<page, attempt, items, got, raised_in, returned>>
          ELSE IF batch = <<>>
          THEN /\ pc' = "merge"
               /\ UNCHANGED <<page, attempt, items, got, raised_in, returned, failed>>
          ELSE /\ items' = items \o batch
               /\ got' = [got EXCEPT ![term] = Append(@, batch)]
               /\ IF total.type # "int"
                  THEN /\ Raise("Fetch")
                       /\ UNCHANGED <<page, attempt, failed>>
                  ELSE /\ IF next_page(page, total.val)
                          THEN /\ page' = page + 1
                               /\ attempt' = 1
                               /\ pc' = "request"
                          ELSE /\ pc' = "merge"
                               /\ UNCHANGED <<page, attempt>>
                       /\ UNCHANGED <<raised_in, returned, failed>>
  /\ UNCHANGED <<fvars, rvars, xvars, env, term, all_ann, seen_ids,
                 reduction_ann, records, extract_failed, stages, market_calls,
                 report_files>>

\* A faulty merge that leaves out "ann_id not in seen_ids"
merge_batch_unseen(batch, seen, all) ==
  LET with_id == SelectSeq(batch, LAMBDA ann :
                   Truthy(Get(Ann(ann), "announcementId", PyStr(<<>>))))
  IN  [seen_ids |-> seen \cup {Get(Ann(with_id[k]), "announcementId", PyStr(<<>>)) :
                                 k \in 1..Len(with_id)},
       all_ann  |-> all \o with_id]

\* A faulty merge that leaves out the test of the id itself ("ann_id and")
RECURSIVE merge_batch_any_id(_, _, _)
merge_batch_any_id(batch, seen, all) ==
  IF batch = <<>> THEN [seen_ids |-> seen, all_ann |-> all]
  ELSE IF Get(Ann(Head(batch)), "announcementId", PyStr(<<>>)) \notin seen
       THEN merge_batch_any_id(Tail(batch),
                               seen \cup {Get(Ann(Head(batch)), "announcementId", PyStr(<<>>))},
                               Append(all, Head(batch)))
       ELSE merge_batch_any_id(Tail(batch), seen, all)

\* for ann in batch: if ann_id and ann_id not in seen_ids: ...
RECURSIVE merge_batch(_, _, _)
merge_batch(batch, seen, all) ==
  IF batch = <<>> THEN [seen_ids |-> seen, all_ann |-> all]
  ELSE LET ann    == Head(batch)
           ann_id == Get(Ann(ann), "announcementId", PyStr(<<>>))
       IN  IF Truthy(ann_id) /\ ann_id \notin seen
           THEN merge_batch(Tail(batch), seen \cup {ann_id}, Append(all, ann))
           ELSE merge_batch(Tail(batch), seen, all)

\* fetch_reduction_announcements merges the batch of the term, sleeps, and
\* goes on with the next term; after the last it returns all_ann
MergeBatch ==
  /\ pc = "merge"
  /\ LET m == merge_batch(items, seen_ids, all_ann)
     IN  /\ seen_ids' = m.seen_ids
         /\ all_ann' = m.all_ann
  /\ items' = <<>>
  /\ io' = <<Slept(request_delay)>>
  /\ failed' = ""
  /\ page' = 1
  /\ attempt' = 1
  /\ IF term < Len(search_terms)
     THEN term' = term + 1 /\ pc' = "request"
     ELSE term' = term /\ pc' = "fetched"
  /\ UNCHANGED <<fvars, rvars, xvars, env, reduction_ann, records, returned,
                 got, any_ok, raised_in, extract_failed,
                 stages, market_calls, report_files>>

\* A faulty step 1 that leaves out "if not raw: return None"
FetchedUnchecked ==
  /\ pc = "fetched"
  /\ pc' = "filter" /\ stages' = Append(stages, "Filter") /\ UNCHANGED returned
  /\ UNCHANGED <<fvars, rvars, xvars, env, io, term, page, attempt, items,
                 all_ann, seen_ids, reduction_ann, records, got,
                 failed, any_ok, raised_in, extract_failed, market_calls,
                 report_files>>

\* if not raw: return None; otherwise step 2
Fetched ==
  /\ pc = "fetched"
  /\ IF all_ann = <<>>
     THEN pc' = "done" /\ returned' = "None" /\ UNCHANGED stages
     ELSE pc' = "filter" /\ stages' = Append(stages, "Filter") /\ UNCHANGED returned
  /\ UNCHANGED <<fvars, rvars, xvars, env, io, term, page, attempt, items,
                 all_ann, seen_ids, reduction_ann, records, got,
                 failed, any_ok, raised_in, extract_failed, market_calls,
                 report_files>>

\* Step 2: filter_by_title(raw); if not reduction_ann: return None;
\* otherwise step 3
Filter ==
  /\ pc = "filter"
  /\ LET f == filter_by_title(all_ann)
     IN  IF f.exc # ""
         THEN Raise("Filter") /\ UNCHANGED <<reduction_ann, stages>>
         ELSE /\ reduction_ann' = f.val
              /\ UNCHANGED raised_in
              /\ IF f.val = <<>>
                 THEN pc' = "done" /\ returned' = "None" /\ UNCHANGED stages
                 ELSE /\ pc' = "extract"
                      /\ stages' = Append(stages, "Extract")
                      /\ UNCHANGED returned
  /\ UNCHANGED <<fvars, rvars, xvars, env, io, term, page, attempt, items,
                 all_ann, seen_ids, records, got, failed, any_ok,
                 extract_failed, market_calls, report_files>>

\* _fallback_record(ann, query_date) raises when build_cninfo_url does
_fallback_record_raises(ann) ==
  build_cninfo_url_raises(Get(Ann(ann), "adjunctUrl", PyStr(<<>>)))

\* _fallback_record(ann, query_date), when it does not raise
_fallback_record(ann, query_date) ==
  [date     |-> query_date,
   code     |-> ZFill(PyToStr(Get(Ann(ann), "secCode", PyStr(<<>>))), 6),
   name     |-> Get(Ann(ann), "secName", PyStr(<<>>)),
   holder   |-> Sentinel,
   ratio    |-> Sentinel,
   quantity |-> Sentinel,
   method   |-> Sentinel,
   source   |-> Sentinel,
   title    |-> Get(Ann(ann), "announcementTitle", PyStr(<<>>)),
   link     |-> build_cninfo_url(Get(Ann(ann), "adjunctUrl", PyStr(<<>>)))]

\* The record of one announcement: extract, then the optional enhancement
extract_and_enhance(ann, enabled, avail, download) ==
  LET rec == Extracted[ann]
  IN  IF enabled THEN Update(rec, enhance_record(avail, rec, download)) ELSE rec

\* A faulty loop that puts the new record in front of the list
AppendRecord_at_head(recs, rec) == <<rec>> \o recs

\* records.append(rec)
AppendRecord(recs, rec) == Append(recs, rec)

\* Step 3, one turn of the loop: the record of the next announcement is
\* appended, or its fallback record when extraction raised; an exception of
\* the fallback leaves the loop for the except clause of run()
ExtractOne ==
  /\ pc = "extract"
  /\ LET i   == Len(records) + 1
         ann == reduction_ann[i]
     IN  \E download \in Downloads :
           /\ (extract_raises(ann) \/ ~enable_pdf_enhance
                 \/ ~enhance_downloads(available, Extracted[ann]))
                => download = DownloadFailed
           /\ IF extract_raises(ann)
              THEN /\ extract_failed' = extract_failed \cup {i}
                   /\ IF _fallback_record_raises(ann)
                      THEN Raise("Extract") /\ UNCHANGED <<records, stages>>
                      ELSE /\ records' = AppendRecord(records, _fallback_record(ann, QueryDate))
                           /\ UNCHANGED <<raised_in, returned>>
                           /\ IF i = Len(reduction_ann)
                              THEN pc' = "report" /\ stages' = Append(stages, "Report")
                              ELSE pc' = "extract" /\ UNCHANGED stages
              ELSE /\ records' = AppendRecord(records,
                          extract_and_enhance(ann, enable_pdf_enhance, available, download))
                   /\ UNCHANGED <<raised_in, returned, extract_failed>>
                   /\ IF i = Len(reduction_ann)
                      THEN pc' = "report" /\ stages' = Append(stages, "Report")
                      ELSE pc' = "extract" /\ UNCHANGED stages
  /\ UNCHANGED <<fvars, rvars, xvars, env, io, term, page, attempt, items,
                 all_ann, seen_ids, reduction_ann, got, failed,
                 any_ok, market_calls, report_files>>

\* The path of the report: output_dir / Reduction_Daily_Report_{date}.xlsx
ReportPath == "reports/Reduction_Daily_Report_20250115.xlsx"

\* generate(records, query_date) on records that are not empty, when the
\* lookup of the new MarketDataFetcher of _merge_market_data, made after the
\* sleep, went as looked: the rows are merged, sorted and written, and the
\* path is returned unless the writing raises
GeneratedWith(records_, looked, write_ok) ==
  /\ now' = now + market_data_delay
  /\ Looked(now + market_data_delay, CodesOf(records_), << >>, << >>, looked)
  /\ report' = [input |-> records_,
                market |-> IF looked.ok THEN "ok" ELSE "failed",
                rows |-> generate(records_, looked.df),
                path |-> IF write_ok THEN ReportPath ELSE "raised"]

Generated(records_, outcome, write_ok) ==
  GeneratedWith(records_,
                get_market_cap(<< >>, << >>, now + market_data_delay, outcome,
                               CodesOf(records_)),
                write_ok)

\* Step 4: ExcelReporter.generate(records, query_date).  The market snapshot
\* is fetched (a failure is caught by the fetcher and leaves the quote columns
\* empty) and the file is written; an error of the write is raised.
Report ==
  /\ pc = "report"
  /\ market_calls' = market_calls + 1
  /\ \E outcome \in MarketOutcomes, write_ok \in BOOLEAN :
       /\ Generated(records, outcome, write_ok)
       /\ IF write_ok
          THEN /\ report_files' = report_files + 1
               /\ returned' = ReportPath
               /\ pc' = "done"
               /\ UNCHANGED raised_in
          ELSE Raise("Report") /\ UNCHANGED report_files
  /\ UNCHANGED <<fvars, rvars, yvars, mpc, ticks, env, io, term, page, attempt, items,
                 all_ann, seen_ids, reduction_ann, records, got,
                 failed, any_ok, extract_failed, stages>>

\* A pipeline run
Init ==
  /\ InitRun
  /\ enable_pdf_enhance \in BOOLEAN
  /\ available \in BOOLEAN
  /\ pool = RunPool
  /\ budget = MaxServedRun
  /\ NoFilter
  /\ NoRecord
  /\ NoExtra

Next ==
  \/ Run
  \/ RequestRetry
  \/ RequestGivesUp
  \/ PageArrives
  \/ MergeBatch
  \/ Fetched
  \/ Filter
  \/ ExtractOne
  \/ Report

Spec == Init /\ [][Next]_vars

\* fetch_reduction_announcements alone, called as run() calls it
InitFetch ==
  /\ InitRun
  /\ enable_pdf_enhance = FALSE
  /\ available = FALSE
  /\ pool = FetchPool
  /\ budget = MaxServed
  /\ NoFilter
  /\ NoRecord
  /\ NoExtra

NextFetch ==
  \/ Run
  \/ RequestRetry
  \/ RequestGivesUp
  \/ PageArrives
  \/ MergeBatch

SpecFetch == InitFetch /\ [][NextFetch]_vars

(***************************************************************************)
(* filter_by_title on its own                                              *)
(***************************************************************************)

\* The pipeline, not running
NoRun ==
  /\ InitRun
  /\ pool = {}
  /\ budget = 0

\* filter_by_title is given a list of announcements
InitFilter ==
  /\ NoRun
  /\ enable_pdf_enhance = FALSE
  /\ available = FALSE
  /\ NoRecord
  /\ NoExtra
  /\ fpc = "given"
  /\ given \in SeqUpTo(DOMAIN Anns, MaxFilterLen)
  /\ kept = [exc |-> "", val |-> <<>>]
  /\ kept_again = [exc |-> "", val |-> <<>>]

\* filter_by_title(given)
FilterOnce ==
  /\ fpc = "given"
  /\ kept' = filter_by_title(given)
  /\ fpc' = "once"
  /\ UNCHANGED <<pvars, rvars, xvars, given, kept_again>>

\* filter_by_title of the list it returned
FilterTwice ==
  /\ fpc = "once"
  /\ kept.exc = ""
  /\ kept_again' = filter_by_title(kept.val)
  /\ fpc' = "twice"
  /\ UNCHANGED <<pvars, rvars, xvars, given, kept>>

NextFilter ==
  \/ FilterOnce
  \/ FilterTwice

SpecFilter == InitFilter /\ [][NextFilter]_vars

(***************************************************************************)
(* The record of one announcement on its own: the body of the loop of      *)
(* step 3, rec = extract(ann); extra = enhance_record(rec);                *)
(* rec.update(extra)                                                       *)
(***************************************************************************)

InitRecord ==
  /\ NoRun
  /\ enable_pdf_enhance \in BOOLEAN
  /\ available \in BOOLEAN
  /\ NoFilter
  /\ NoExtra
  /\ rpc = "given"
  /\ one_ann \in DOMAIN Anns
  /\ title_rec = <<>>
  /\ one_download = DownloadFailed
  /\ extra_fields = <<>>
  /\ download_calls = 0
  /\ rec_out = <<>>

\* rec = self.extractor.extract(ann)
ExtractRecord ==
  /\ rpc = "given"
  /\ IF extract_raises(one_ann)
     THEN rpc' = "raised" /\ UNCHANGED title_rec
     ELSE rpc' = "extracted" /\ title_rec' = Extracted[one_ann]
  /\ UNCHANGED <<pvars, fvars, xvars, one_ann, one_download, extra_fields, download_calls, rec_out>>

\* extra = self.enhancer.enhance_record(rec), if there is an enhancer
EnhanceRecord ==
  /\ rpc = "extracted"
  /\ \E download \in Downloads :
       /\ (~enable_pdf_enhance \/ ~enhance_downloads(available, title_rec))
             => download = DownloadFailed
       /\ one_download' = download
       /\ extra_fields' = IF enable_pdf_enhance
                          THEN enhance_record(available, title_rec, download)
                          ELSE << >>
       /\ download_calls' = IF enable_pdf_enhance /\ enhance_downloads(available, title_rec)
                            THEN download_calls + 1 ELSE download_calls
  /\ rpc' = "enhanced"
  /\ UNCHANGED <<pvars, fvars, xvars, one_ann, title_rec, rec_out>>

\* rec.update(extra); records.append(rec)
UpdateRecord ==
  /\ rpc = "enhanced"
  /\ rec_out' = Update(title_rec, extra_fields)
  /\ rpc' = "updated"
  /\ UNCHANGED <<pvars, fvars, xvars, one_ann, title_rec, one_download, extra_fields, download_calls>>

NextRecord ==
  \/ ExtractRecord
  \/ EnhanceRecord
  \/ UpdateRecord

SpecRecord == InitRecord /\ [][NextRecord]_vars

(***************************************************************************)
(* A process: its clock, the lookups on one MarketDataFetcher, and the     *)
(* reports it builds                                                       *)
(***************************************************************************)

\* How many times the clock of a process advances at most
MaxTicks == 3

\* The calls of ak.stock_zh_a_spot_em() of a process at most
MaxCalls == 3

\* Nothing of the pipeline, the filter or the record is running
NoPipeline ==
  /\ NoRun
  /\ enable_pdf_enhance = FALSE
  /\ available = FALSE
  /\ NoFilter
  /\ NoRecord

\* The process starts: no snapshot was fetched yet
InitMarket ==
  /\ NoPipeline
  /\ mpc = "up"
  /\ now = 0 /\ ticks = 0
  /\ _cache_df = << >> /\ _cache_ts = << >>
  /\ snapshot_calls = 0
  /\ last_ok = << >>
  /\ lookup = NoLookup
  /\ report = NoReport
  /\ NoSort /\ NoStrategy /\ NoDaemon /\ NoOther

\* Time passes
Tick ==
  /\ mpc = "up"
  /\ ticks < MaxTicks
  /\ \E d \in ClockSteps : now' = now + d
  /\ ticks' = ticks + 1
  /\ UNCHANGED <<pvars, fvars, rvars, yvars, mpc, _cache_df, _cache_ts,
                 snapshot_calls, last_ok, lookup, report>>

\* fetcher.get_market_cap(stock_codes) on the fetcher of the process
Lookup ==
  /\ mpc = "up"
  /\ snapshot_calls < MaxCalls
  /\ \E stock_codes \in CodeLists, outcome \in MarketOutcomes :
       /\ CacheFresh(_cache_df, _cache_ts, now) => outcome = << >>
       /\ Looked(now, stock_codes, _cache_df, _cache_ts,
                 get_market_cap(_cache_df, _cache_ts, now, outcome, stock_codes))
  /\ UNCHANGED <<pvars, fvars, rvars, yvars, mpc, now, ticks, report>>

NextMarket ==
  \/ Tick
  \/ Lookup

SpecMarket == InitMarket /\ [][NextMarket]_vars

\* The announcements whose records the reports of the model are built from
ReportAnns == {1, 10}

\* The records of a report at most
MaxReportRows == 2

\* The record lists generate can be given
ReportInputs == SeqUpTo({Extracted[a] : a \in ReportAnns}, MaxReportRows)

\* ExcelReporter.generate(records, query_date): an empty list returns ""
\* at once
Generate ==
  /\ mpc = "up"
  /\ snapshot_calls < MaxCalls
  /\ \E records_ \in ReportInputs, outcome \in MarketOutcomes, write_ok \in BOOLEAN :
       IF records_ = << >>
       THEN /\ outcome = << >> /\ write_ok
            /\ report' = [NoReport EXCEPT !.market = "skipped"]
            /\ UNCHANGED <<now, _cache_df, _cache_ts, snapshot_calls, last_ok, lookup>>
       ELSE Generated(records_, outcome, write_ok)
  /\ UNCHANGED <<pvars, fvars, rvars, yvars, mpc, ticks>>

NextReports ==
  \/ Tick
  \/ Generate

\* A process that builds reports
SpecReports == InitMarket /\ [][NextReports]_vars

(***************************************************************************)
(* The sort of the report rows on its own                                  *)
(***************************************************************************)

\* The rows given to _clean_and_sort at most
MaxRows == 4

\* The market caps (亿元) and the ratio texts of the rows of the model
RowCaps == {Null, <<10>>, <<30>>, <<50>>}

RowRatios == {Sentinel, <<"5", ".", "5">>, <<"1", "0">>}

\* The rows with the given caps, in order, and the same ratio
RowsOfCaps(caps, ratio) == [k \in 1..Len(caps) |-> [cap |-> caps[k], ratio |-> ratio]]

\* _clean_and_sort is given a frame
InitSort ==
  /\ NoPipeline
  /\ NoMarket /\ NoStrategy /\ NoDaemon /\ NoOther
  /\ spc = "given"
  /\ sort_in \in SeqUpTo([cap : RowCaps, ratio : RowRatios], MaxRows)
  /\ sort_out = << >>

\* df = self._clean_and_sort(df)
CleanAndSort ==
  /\ spc = "given"
  /\ sort_out' = _clean_and_sort(sort_in)
  /\ spc' = "sorted"
  /\ UNCHANGED <<pvars, fvars, rvars, mvars, evars, dvars, zvars, sort_in>>

NextSort == CleanAndSort

SpecSort == InitSort /\ [][NextSort]_vars

(***************************************************************************)
(* One extraction strategy on its own: _safe(strategy, text)               *)
(***************************************************************************)

\* The pieces a text of the model is made of at most
MaxPieces == 2

\* The pieces of the texts of the model
Pieces ==
  { <<"guan", "yu", "A", "ni", "jian", "chi">>,
    <<"zhang", "san", "xian2", "sheng", "ji", "hua", "jian", "chi">>,
    <<"jian", "chi", "bu", "chao", "guo", "gong", "si", "zong2", "gu", "ben", "de", "5", ".", "5", "%">>,
    <<"zhan2", "zong2", "gu", "ben", "1", ".", "5", "%">>,
    <<"bu", "chao", "guo", "1", "0", "0", "0", "0", "0", "0", "gu">>,
    <<"jian", "chi", "1", ",", "2", "3", "4", ".", "5", "wan", "gu">>,
    <<"ji2", "zhong", "jing", "jia">>,
    <<"da", "zong", "jiao", "yi", "ji7", "E", "S", "O", "P">>,
    <<"guan", "yu", "mou", "mou", "mou", "mou", "mou", "mou", "mou", "mou", "mou", "mou", "mou", "mou", "mou", "mou", "mou", "mou", "mou", "mou", "mou", "mou", "mou", "mou", "mou", "mou", "mou", "mou", "ni", "jian", "chi">> }

\* The text of an announcement, or of the first pages of its document
InitStrategy ==
  /\ NoPipeline
  /\ NoMarket /\ NoSort /\ NoDaemon /\ NoOther
  /\ epc = "given"
  /\ \E ps \in SeqUpTo(Pieces, MaxPieces) : etext = Concat(ps)
  /\ efield = ""
  /\ eout = << >>

\* self._safe(strategy, text), for the strategy of the field
Applied(field) ==
  /\ epc = "given"
  /\ efield' = field
  /\ eout' = _safe(field, PyStr(etext))
  /\ epc' = "done"
  /\ UNCHANGED <<pvars, fvars, rvars, mvars, svars, dvars, zvars, etext>>

\* self._safe(self._extract_holder, text)
ExtractHolder == Applied("holder")

\* self._safe(self._extract_ratio, text)
ExtractRatio == Applied("ratio")

\* self._safe(self._extract_quantity, text)
ExtractQuantity == Applied("quantity")

\* self._safe(self._extract_methods, text)
ExtractMethods == Applied("method")

\* self._safe(self._extract_source, text)
ExtractSource == Applied("source")

NextStrategy ==
  \/ ExtractHolder
  \/ ExtractRatio
  \/ ExtractQuantity
  \/ ExtractMethods
  \/ ExtractSource

SpecStrategy == InitStrategy /\ [][NextStrategy]_vars

(***************************************************************************)
(* The daemon: run_daemon polls the schedule until it is interrupted       *)
(***************************************************************************)

\* The polls of the schedule the model follows
MaxPolls == 5

\* The ticks of the clock the model follows
MaxClock == 7

\* The ticks a pipeline run takes at most (more than a day)
MaxRunTicks == 4

\* every().day: the ticks of a day
Day == 3

KeyboardInterrupt == "KeyboardInterrupt"

\* What an iteration can raise: the interrupt of the keyboard at any point,
\* and the exceptions of the poll and of the job (a failure of the network
\* or of the file system, an error of the program)
Raisable == {KeyboardInterrupt, "ConnectionError", "OSError", "TypeError"}

\* issubclass(exc, Exception): KeyboardInterrupt derives from BaseException
IsException(exc) == exc # KeyboardInterrupt

\* A faulty handler that takes every exception for the interrupt
ExceptClause_break_on_any(exc) == "break"

\* The except clause of the loop that takes the exception: the first one
\* leaves the loop, the second one logs the exception and sleeps 60 s; an
\* exception that none takes leaves run_daemon
ExceptClause(exc) ==
  IF exc = KeyboardInterrupt THEN "break"
  ELSE IF IsException(exc) THEN "log"
  ELSE "propagate"

\* A faulty schedule that takes the scheduled time of the day of t, passed
\* or not
_schedule_next_run_today(t, at) == (t \div Day) * Day + at

\* Job._schedule_next_run for every().day.at(...): the first time after t
\* that is the tick `at` of a day
_schedule_next_run(t, at) ==
  LET today == (t \div Day) * Day + at
  IN  IF today > t THEN today ELSE today + Day

\* run_daemon(): the job is registered and the loop is entered
InitDaemon ==
  /\ NoPipeline
  /\ NoMarket /\ NoSort /\ NoStrategy /\ NoOther
  /\ dpc = "poll"
  /\ polls = 0 /\ jobs = 0 /\ errors = 0
  /\ raised_exc = ""
  /\ ended_by = ""
  /\ clock \in 0..(Day - 1)
  /\ at_time \in 0..(Day - 1)
  /\ next_run = _schedule_next_run(clock, at_time)
  /\ running = 0
  /\ runs = <<>>

\* The iteration raised exc in its try block
Handled(exc) ==
  /\ raised_exc' = exc
  /\ CASE ExceptClause(exc) = "break" ->
            dpc' = "stopped" /\ ended_by' = exc /\ UNCHANGED errors
       [] ExceptClause(exc) = "log" ->
            dpc' = "cooldown" /\ errors' = errors + 1 /\ UNCHANGED ended_by
       [] OTHER ->
            dpc' = "killed" /\ ended_by' = exc /\ UNCHANGED errors

\* Job.should_run: datetime.now() >= self.next_run
should_run == clock >= next_run

\* Time passes during a sleep: the clock stays in its tick or enters the next
Passes ==
  clock' \in {clock, Min({clock + 1, MaxClock})}

\* schedule.run_pending(): no job is due; or _run_scheduled_job is called
\* and ReductionPipeline() raises, or pipeline.run() is entered; or the
\* poll is interrupted
Poll ==
  /\ dpc = "poll"
  /\ polls < MaxPolls
  /\ polls' = polls + 1
  /\ IF should_run
     THEN /\ jobs' = jobs + 1
          /\ \/ /\ dpc' = "job"
                /\ running' = running + 1
                /\ runs' = Append(runs, [scheduled |-> next_run, started |-> clock])
                /\ raised_exc' = ""
                /\ UNCHANGED <<errors, ended_by>>
             \/ /\ \E exc \in Raisable : Handled(exc)
                /\ UNCHANGED <<running, runs>>
     ELSE /\ \/ dpc' = "sleep" /\ raised_exc' = "" /\ UNCHANGED <<errors, ended_by>>
             \/ Handled(KeyboardInterrupt)
          /\ UNCHANGED <<jobs, running, runs>>
  /\ UNCHANGED <<pvars, fvars, rvars, mvars, svars, evars, zvars, clock, at_time, next_run>>

\* pipeline.run() ends after some time.  It returns (it catches every
\* Exception) and the job sets its next_run; or it is interrupted from the
\* keyboard, and the interrupt leaves the job as it was.
JobEnds ==
  /\ dpc = "job"
  /\ running' = running - 1
  /\ \E d \in 0..MaxRunTicks :
       /\ clock' = Min({clock + d, MaxClock})
       /\ \/ /\ next_run' = _schedule_next_run(clock', at_time)
             /\ dpc' = "sleep"
             /\ UNCHANGED <<raised_exc, errors, ended_by>>
          \/ /\ Handled(KeyboardInterrupt)
             /\ UNCHANGED next_run
  /\ UNCHANGED <<pvars, fvars, rvars, mvars, svars, evars, zvars, polls, jobs, at_time, runs>>

\* time.sleep(30) returns, or is interrupted
Sleep ==
  /\ dpc = "sleep"
  /\ Passes
  /\ \/ dpc' = "poll" /\ UNCHANGED <<raised_exc, errors, ended_by>>
     \/ Handled(KeyboardInterrupt)
  /\ UNCHANGED <<pvars, fvars, rvars, mvars, svars, evars, zvars, polls, jobs,
                 at_time, next_run, running, runs>>

\* time.sleep(60) of the handler returns: the loop goes on
Cooldown ==
  /\ dpc = "cooldown"
  /\ dpc' = "poll"
  /\ Passes
  /\ UNCHANGED <<pvars, fvars, rvars, mvars, svars, evars, zvars, polls, jobs,
                 errors, raised_exc, ended_by, at_time, next_run, running, runs>>

\* time.sleep(60) of the handler is interrupted: the interrupt is raised in
\* an except clause, where no clause of the same try takes it, and leaves
\* run_daemon
CooldownInterrupted ==
  /\ dpc = "cooldown"
  /\ dpc' = "killed"
  /\ raised_exc' = KeyboardInterrupt
  /\ ended_by' = KeyboardInterrupt
  /\ Passes
  /\ UNCHANGED <<pvars, fvars, rvars, mvars, svars, evars, zvars, polls, jobs,
                 errors, at_time, next_run, running, runs>>

NextDaemon == Poll \/ JobEnds \/ Sleep \/ Cooldown \/ CooldownInterrupted

SpecDaemon == InitDaemon /\ [][NextDaemon]_vars

\* time.sleep returns: a sleep that is not interrupted ends
SpecDaemonFair == SpecDaemon /\ WF_vars(Cooldown) /\ WF_vars(Sleep)

(***************************************************************************)
(* The command line entry: main()                                          *)
(***************************************************************************)

\* CONFIG["output_dir"] as the module defines it
DefaultOutputDir == "./reports"

\* CONFIG["schedule_time"] as the module defines it
DefaultScheduleTime == "21:00"

\* The directories --output-dir is given
OutputDirs == {DefaultOutputDir, "out", "/data/reports"}

\* The dates --date is given
Dates == {<<"2", "0", "2", "5", "-", "0", "1", "-", "1", "5">>, <<"2", "0", "2", "5", "-", "0", "3", "-", "0", "1">>}

\* datetime.now().strftime("%Y-%m-%d") on the day of the run
Today == <<"2", "0", "2", "5", "-", "0", "1", "-", "1", "6">>

\* The command lines: each option is given (<<v>>) or left out (<<>>)
CommandLines ==
  [mode       : {<<>>, <<"run">>, <<"daemon">>},
   date       : {<<>>} \cup {<<d>> : d \in Dates},
   time       : {<<>>, <<"20:30">>},
   pdf        : BOOLEAN,
   output_dir : {<<>>} \cup {<<d>> : d \in OutputDirs}]

\* An option's value, or its default
OrDefault(opt, default) == IF opt = <<>> THEN default ELSE opt[1]

\* _build_arg_parser().parse_args(): the defaults of --time and of
\* --output-dir are the values CONFIG has when the parser is built
parse_args(cl, config_dir) ==
  [mode       |-> OrDefault(cl.mode, "run"),
   date       |-> cl.date,
   time       |-> OrDefault(cl.time, DefaultScheduleTime),
   pdf        |-> cl.pdf,
   output_dir |-> OrDefault(cl.output_dir, config_dir)]

\* The default of the parameter output_dir of ExcelReporter.__init__: the
\* value CONFIG["output_dir"] had when the def statement was executed, at
\* the import of the module
ExcelReporter_default_output_dir == DefaultOutputDir

\* ExcelReporter(): output_dir was not passed and takes its default
ExcelReporter_init == ExcelReporter_default_output_dir

\* query_date.replace("-", "")
date_str(query_date) == SelectSeq(query_date, LAMBDA c : c # "-")

\* self.output_dir / f"Reduction_Daily_Report_{date_str}.xlsx"
out_path(output_dir, query_date) ==
  [dir |-> output_dir, name |-> <<"R", "e", "d", "u", "c", "t", "i", "o", "n", "_", "D", "a", "i", "l", "y", "_", "R", "e", "p", "o", "r", "t", "_">> \o date_str(query_date) \o <<".", "x", "l", "s", "x">>]

\* The process starts with a command line
InitMain ==
  /\ NoPipeline
  /\ NoExtraButMain
  /\ cpc = "start"
  /\ argv \in CommandLines
  /\ args = NoArgs
  /\ config_output_dir = DefaultOutputDir
  /\ reporter_output_dir = <<>>
  /\ written = <<>>
  /\ exit_status = <<>>

\* args = parser.parse_args()
ParseArgs ==
  /\ cpc = "start"
  /\ args' = parse_args(argv, config_output_dir)
  /\ cpc' = "parsed"
  /\ UNCHANGED <<pvars, fvars, rvars, mvars, svars, evars, dvars, bvars, argv,
                 config_output_dir, reporter_output_dir, written, exit_status>>

\* CONFIG["output_dir"] = args.output_dir
SetConfig ==
  /\ cpc = "parsed"
  /\ config_output_dir' = args.output_dir
  /\ cpc' = "configured"
  /\ UNCHANGED <<pvars, fvars, rvars, mvars, svars, evars, dvars, bvars, argv,
                 args, reporter_output_dir, written, exit_status>>

\* pipeline = ReductionPipeline(enable_pdf_enhance=args.pdf): its reporter
\* is ExcelReporter(), which makes its directory; mkdir may raise
Construct ==
  /\ cpc = "configured"
  /\ args.mode = "run"
  /\ \E mkdir_ok \in BOOLEAN :
       IF mkdir_ok
       THEN /\ reporter_output_dir' = <<ExcelReporter_init>>
            /\ cpc' = "constructed"
       ELSE /\ cpc' = "crashed"
            /\ UNCHANGED reporter_output_dir
  /\ UNCHANGED <<pvars, fvars, rvars, mvars, svars, evars, dvars, bvars, argv,
                 args, config_output_dir, written, exit_status>>

\* result = pipeline.run(query_date=args.date): the run writes a report and
\* returns its path, or returns None
RunNow ==
  /\ cpc = "constructed"
  /\ \E reported \in BOOLEAN :
       written' = IF reported
                  THEN <<out_path(reporter_output_dir[1], OrDefault(args.date, Today))>>
                  ELSE <<>>
  /\ cpc' = "ran"
  /\ UNCHANGED <<pvars, fvars, rvars, mvars, svars, evars, dvars, bvars, argv,
                 args, config_output_dir, reporter_output_dir, exit_status>>

\* sys.exit(0 if result else 1)
Exit ==
  /\ cpc = "ran"
  /\ exit_status' = IF written # <<>> THEN <<0>> ELSE <<1>>
  /\ cpc' = "exited"
  /\ UNCHANGED <<pvars, fvars, rvars, mvars, svars, evars, dvars, bvars, argv,
                 args, config_output_dir, reporter_output_dir, written>>

\* run_daemon(schedule_time=args.time)
StartDaemon ==
  /\ cpc = "configured"
  /\ args.mode = "daemon"
  /\ cpc' = "daemon"
  /\ UNCHANGED <<pvars, fvars, rvars, mvars, svars, evars, dvars, bvars, argv,
                 args, config_output_dir, reporter_output_dir, written, exit_status>>

NextMain == ParseArgs \/ SetConfig \/ Construct \/ RunNow \/ Exit \/ StartDaemon

SpecMain == InitMain /\ [][NextMain]_vars

(***************************************************************************)
(* The batch crawl: QixinbaoCrawler.crawl_batch                            *)
(***************************************************************************)

\* The companies of a batch at most
MaxCompanies == 3

\* The names a batch is made of
Companies == {"A", "B"}

\* How crawl_single_company goes: the data is extracted; the search finds
\* nothing; no detail page opens; an Exception is raised on the way
CrawlOutcomes == {"data", "not found", "no detail page", "Exception"}

\* crawl_single_company(company_name): the company's data (a dict that
\* holds crawl_time at least, here the ordinal of the crawl), or None; every
\* Exception is caught, and close_page passes every error of the closing
crawl_single_company(company_name, nth, outcome) ==
  IF outcome = "data"
  THEN <<[company |-> company_name, crawl_time |-> nth]>>
  ELSE <<>>

\* A faulty loop that waits after the last company too
DelayDue_always(i, total) == TRUE

\* if i < total: await random_delay(3, 6)
DelayDue(i, total) == i < total

\* The events of crawl_batch
Crawled(i, company_name, d) ==
  [op |-> "crawl", i |-> i, company |-> company_name, data |-> d]

Called(current, total, company_name, success) ==
  [op |-> "callback", current |-> current, total |-> total,
   company |-> company_name, success |-> success]

Delayed(i) == [op |-> "delay", i |-> i]

\* crawl_batch is called with a list of names, with a callback or without one
InitBatch ==
  /\ NoPipeline
  /\ NoExtraButBatch
  /\ bpc = "start"
  /\ company_names \in SeqUpTo(Companies, MaxCompanies)
  /\ progress_callback \in BOOLEAN
  /\ crawl_i = 0
  /\ data = <<>>
  /\ results = <<>>
  /\ trace = <<>>

\* results = []; total = len(company_names); the loop is entered, or there
\* is no company and results is returned
CrawlBatch ==
  /\ bpc = "start"
  /\ IF company_names = <<>>
     THEN bpc' = "returned" /\ UNCHANGED crawl_i
     ELSE bpc' = "crawl" /\ crawl_i' = 1
  /\ UNCHANGED <<pvars, fvars, rvars, mvars, svars, evars, dvars, cvars,
                 company_names, progress_callback, data, results, trace>>

\* What follows the callback of company i, or the crawl when there is no
\* callback: the delay, or the end of the loop
AfterCompany(i) ==
  IF DelayDue(i, Len(company_names)) THEN "delay" ELSE "returned"

\* data = await self.crawl_single_company(company_name);
\* if data: results.append(data)
CrawlCompany ==
  /\ bpc = "crawl"
  /\ \E outcome \in CrawlOutcomes :
       LET d == crawl_single_company(company_names[crawl_i], crawl_i, outcome)
       IN  /\ data' = d
           /\ results' = IF d # <<>> THEN Append(results, d[1]) ELSE results
           /\ trace' = Append(trace, Crawled(crawl_i, company_names[crawl_i], d))
  /\ bpc' = IF progress_callback THEN "progress" ELSE AfterCompany(crawl_i)
  /\ UNCHANGED <<pvars, fvars, rvars, mvars, svars, evars, dvars, cvars,
                 company_names, progress_callback, crawl_i>>

\* await progress_callback(i, total, company_name, data is not None)
Progress ==
  /\ bpc = "progress"
  /\ trace' = Append(trace, Called(crawl_i, Len(company_names),
                                   company_names[crawl_i], data # <<>>))
  /\ bpc' = AfterCompany(crawl_i)
  /\ UNCHANGED <<pvars, fvars, rvars, mvars, svars, evars, dvars, cvars,
                 company_names, progress_callback, crawl_i, data, results>>

\* await random_delay(3, 6), and the next turn of the loop
Delay ==
  /\ bpc = "delay"
  /\ trace' = Append(trace, Delayed(crawl_i))
  /\ crawl_i' = crawl_i + 1
  /\ bpc' = "crawl"
  /\ UNCHANGED <<pvars, fvars, rvars, mvars, svars, evars, dvars, cvars,
                 company_names, progress_callback, data, results>>

NextBatch == CrawlBatch \/ CrawlCompany \/ Progress \/ Delay

SpecBatch == InitBatch /\ [][NextBatch]_vars

(***************************************************************************)
(* Properties                                                              *)
(***************************************************************************)

\* ann.get("announcementId", "")
IdOf(ann) == Get(Ann(ann), "announcementId", PyStr(<<>>))

\* The elements of s
Range(s) == {s[k] : k \in 1..Len(s)}

\* The elements of s at the indices in keep, in the order of s
RECURSIVE Pick(_, _, _)
Pick(s, keep, k) ==
  IF k > Len(s) THEN <<>>
  ELSE (IF k \in keep THEN <<s[k]>> ELSE <<>>) \o Pick(s, keep, k + 1)

\* The announcements of s that have an id no earlier announcement of s has
FirstOccurrences(s) ==
  Pick(s, {k \in 1..Len(s) :
             Truthy(IdOf(s[k])) /\ \A j \in 1..(k - 1) : IdOf(s[j]) # IdOf(s[k])}, 1)

\* What the endpoint returned for the keywords merged so far, in keyword
\* order then page order
Arrived ==
  Concat([t \in 1..(IF pc = "fetched" THEN Len(search_terms) ELSE term - 1) |->
            Concat(got[t])])

\* The rule of the title filter, stated on a title that is a string: an
\* inclusion keyword occurs in it
HasKeyword(title) ==
  \E k \in 1..Len(reduction_keywords) : Contains(title, reduction_keywords[k])

\* ... and an exclusion pattern matches it
IsExcluded(title) ==
  \E p \in 1..Len(title_exclude_patterns) : ReMatch(title_exclude_patterns[p], title)

\* For the announcements 1..n of the model: "keep" if the rule keeps the
\* title, "excluded" if it has a keyword and matches an exclusion pattern,
\* "other" otherwise
RECURSIVE TitleRules(_)
TitleRules(n) ==
  IF n = 0 THEN <<>>
  ELSE Append(TitleRules(n - 1),
              IF TitleOf(n).type # "str" \/ ~HasKeyword(TitleOf(n).val) THEN "other"
              ELSE IF IsExcluded(TitleOf(n).val) THEN "excluded" ELSE "keep")

TitleRule == TitleRules(Len(Anns))

\* The stages of a run, in order
Stages == <<"Fetch", "Filter", "Extract", "Report">>

\* C1: extract never raises, whatever the announcement, and each of the five
\* derived fields of the record it returns is a non-empty value or the
\* sentinel.
C1_ExtractNeverRaises ==
  rpc \in {"raised", "extracted", "enhanced", "updated"} =>
    /\ rpc # "raised"
    /\ \A f \in DerivedFields : title_rec[f] = Sentinel \/ title_rec[f] # <<>>

\* C2: when the extraction of one announcement raises in the Extract stage,
\* the announcement gets a fallback record (the five derived fields are the
\* sentinel; code, name and title are the announcement's), the announcements
\* after it are processed too, and the run reaches the Report stage.
C2_BadRecordIsolated ==
  extract_failed # {} =>
    /\ raised_in # "Extract"
    /\ \A i \in extract_failed :
         /\ i <= Len(records)
         /\ \A f \in DerivedFields : records[i][f] = Sentinel
         /\ records[i].code = ZFill(PyToStr(Get(Ann(reduction_ann[i]), "secCode", PyStr(<<>>))), 6)
         /\ records[i].name = Get(Ann(reduction_ann[i]), "secName", PyStr(<<>>))
         /\ records[i].title = Get(Ann(reduction_ann[i]), "announcementTitle", PyStr(<<>>))
    /\ pc = "done" =>
         /\ Len(records) = Len(reduction_ann)
         /\ "Report" \in Range(stages)

\* C3: run lets no exception of a lower layer through: it returns a report
\* path or None, and None whenever an exception was raised in a stage.
C3_RunNeverRaises ==
  /\ returned \in {"running", "None", ReportPath}
  /\ pc = "done" => returned \in {"None", ReportPath}
  /\ raised_in # "" => (pc = "done" /\ returned = "None")

C3_Witness == pc = "done" /\ raised_in = "Report" /\ returned = "None"

\* C4: the stages of a run are entered in the order Fetch, Filter, Extract,
\* Report; a run whose fetch returns nothing, or whose filter keeps nothing,
\* returns None without entering a later stage, fetching no market data and
\* writing no report.
C4_StagesInOrder ==
  /\ Len(stages) <= Len(Stages)
  /\ stages = SubSeq(Stages, 1, Len(stages))
  /\ (pc = "done" /\ raised_in = "" /\ all_ann = <<>>) =>
       /\ returned = "None"
       /\ stages = <<"Fetch">>
       /\ market_calls = 0 /\ report_files = 0
  /\ (pc = "done" /\ raised_in = "" /\ all_ann # <<>> /\ reduction_ann = <<>>) =>
       /\ returned = "None"
       /\ stages = <<"Fetch", "Filter">>
       /\ market_calls = 0 /\ report_files = 0
  /\ (market_calls > 0 \/ report_files > 0) => stages = Stages

C4_Witness ==
  /\ pc = "done" /\ raised_in = "" /\ returned = "None"
  /\ all_ann # <<>> /\ reduction_ann = <<>>
  /\ market_calls = 0 /\ report_files = 0

\* C5: the list fetch_reduction_announcements builds holds each announcement
\* id once at most, and it is the first occurrences, in keyword order then
\* page order, of the ids the endpoint returned, in that order.
C5_MergedByIdFirstWins ==
  /\ \A i, j \in 1..Len(all_ann) : i # j => IdOf(all_ann[i]) # IdOf(all_ann[j])
  /\ all_ann = FirstOccurrences(Arrived)

C5_Witness ==
  /\ pc = "fetched"
  /\ \E i, j \in 1..Len(Arrived) :
       /\ i < j
       /\ IdOf(Arrived[i]) = IdOf(Arrived[j])
       /\ Arrived[i] # Arrived[j]
       /\ Arrived[i] \in Range(all_ann)

\* C6: as long as every HTTP request has failed, fetch_reduction_announcements
\* has collected nothing and raised nothing; it returns the empty list.
C6_UnreachableEndpoint ==
  ~any_ok =>
    /\ all_ann = <<>>
    /\ items = <<>>
    /\ raised_in = ""
    /\ returned = "running"

C6_Witness == pc = "fetched" /\ ~any_ok /\ all_ann = <<>>

\* C7: when the paging of a keyword is abandoned at page p (the request
\* failed after all retries, or the body was no JSON), the announcements of
\* its pages 1..p-1 are the batch that is merged into the result, the next
\* request is page 1 of the next keyword, and no keyword is queried again.
C7_PartialPagesKept ==
  [][/\ (pc = "merge" /\ failed # "") =>
          /\ items = Concat(got[term])
          /\ page = Len(got[term]) + 1
          /\ \A k \in 1..Len(items) :
               Truthy(IdOf(items[k])) => IdOf(items[k]) \in {IdOf(a) : a \in Range(all_ann')}
          /\ IF term < Len(search_terms)
             THEN pc' = "request" /\ term' = term + 1 /\ page' = 1
             ELSE pc' = "fetched"
      /\ term' >= term
      /\ Len(all_ann') >= Len(all_ann)
      /\ SubSeq(all_ann', 1, Len(all_ann)) = all_ann]_vars

C7_Witness ==
  /\ pc = "merge" /\ failed = "http"
  /\ page = 2 /\ Len(got[term]) = 1
  /\ items # <<>>
  /\ term < Len(search_terms)

\* C8: filter_by_title keeps an announcement iff its title has an inclusion
\* keyword and matches no exclusion pattern, in the order of the input,
\* adding and duplicating nothing.
C8_FilterKeepsByRule ==
  (fpc \in {"once", "twice"} /\ kept.exc = "") =>
    kept.val = SelectSeq(given, LAMBDA a : TitleRule[a] = "keep")

C8_Witness ==
  /\ fpc = "once" /\ kept.exc = ""
  /\ Len(given) = 3 /\ Len(kept.val) = 2
  /\ kept.val[1] # kept.val[2]
  /\ \E i \in 1..Len(given) : TitleRule[given[i]] = "excluded"

\* C9: filtering a filtered list changes nothing, and a title that has an
\* inclusion keyword and matches an exclusion pattern is dropped.
C9_FilterIdempotent ==
  /\ fpc = "twice" => kept_again = kept
  /\ (fpc \in {"once", "twice"} /\ kept.exc = "") =>
       \A i \in 1..Len(given) :
         TitleRule[given[i]] = "excluded" => given[i] \notin Range(kept.val)

C9_Witness ==
  /\ fpc = "twice"
  /\ kept.val # <<>>
  /\ kept_again.val = kept.val
  /\ \E i \in 1..Len(given) : TitleRule[given[i]] = "excluded"

\* C10: the update set of the enhancer holds only derived fields whose value
\* in the title-derived record is the sentinel, and no sentinel; after
\* rec.update(extra) the raw fields and the fields the title resolved are
\* unchanged.
C10_EnhancerFillsOnlySentinels ==
  /\ rpc \in {"enhanced", "updated"} =>
       \A f \in DOMAIN extra_fields :
         /\ f \in DerivedFields
         /\ title_rec[f] = Sentinel
         /\ extra_fields[f] # Sentinel
  /\ rpc = "updated" =>
       /\ DOMAIN rec_out = DOMAIN title_rec
       /\ \A f \in DOMAIN title_rec :
            (f \in RawFields \/ title_rec[f] # Sentinel) => rec_out[f] = title_rec[f]
       /\ \A f \in DerivedFields : rec_out[f] = Sentinel => title_rec[f] = Sentinel

C10_Witness ==
  /\ rpc = "updated"
  /\ one_download.ok
  /\ extra_fields # << >>
  /\ \E f \in DerivedFields :
       /\ title_rec[f] # Sentinel
       /\ PdfSafe[one_download.text][f] \notin {Sentinel, title_rec[f]}
       /\ rec_out[f] = title_rec[f]

\* The link of a record is a document reference: not empty, not "N/A", and
\* ending in ".pdf" whatever the case
LinkIsDocument(record) ==
  /\ record.link \notin {<<>>, <<"N", "/", "A">>}
  /\ Len(record.link) >= 4
  /\ Lower(SubSeq(record.link, Len(record.link) - 3, Len(record.link))) = <<".", "p", "d", "f">>

\* C11: enhance_record returns the empty update set, issuing no download,
\* when pdfplumber is unavailable or the link of the record is no document
\* reference; it returns the empty update set when the download or the parse
\* fails; it never raises (only extract can end the loop body by raising).
C11_EnhancerFailsEmpty ==
  /\ rpc = "raised" => extract_raises(one_ann)
  /\ (rpc \in {"enhanced", "updated"} /\ enable_pdf_enhance) =>
       /\ (~available \/ ~LinkIsDocument(title_rec)) =>
            (extra_fields = << >> /\ download_calls = 0)
       /\ ~one_download.ok => extra_fields = << >>
       /\ download_calls <= 1

C11_Witness ==
  /\ rpc = "enhanced" /\ enable_pdf_enhance /\ available
  /\ title_rec.link # <<"N", "/", "A">>
  /\ ~LinkIsDocument(title_rec)
  /\ extra_fields = << >> /\ download_calls = 0

\* C13: on one MarketDataFetcher a lookup issues the external call exactly
\* when no snapshot is cached or the cached one is as old as the validity
\* window or older; otherwise it returns the cached snapshot restricted to the
\* codes asked for and leaves the cache and its time unchanged; the rows a
\* lookup returns never come from a snapshot as old as the window.
C13_CacheWindow ==
  lookup # NoLookup =>
    /\ lookup.called <=>
         \/ lookup.df_before = << >>
         \/ lookup.ts_before = << >>
         \/ lookup.at - lookup.ts_before[1] >= _CACHE_TTL_SECONDS
    /\ ~lookup.called =>
         /\ lookup.result =
              SelectSeq(lookup.df_before[1],
                        LAMBDA q : \E k \in 1..Len(lookup.codes) :
                                     q.code = ZFill(lookup.codes[k], 6))
         /\ _cache_df = lookup.df_before
         /\ _cache_ts = lookup.ts_before
    /\ lookup.result # << >> =>
         /\ _cache_df # << >> /\ _cache_ts # << >>
         /\ lookup.at - _cache_ts[1] < _CACHE_TTL_SECONDS
         /\ \A k \in 1..Len(lookup.result) :
              \E j \in 1..Len(_cache_df[1]) : lookup.result[k] = _cache_df[1][j]

C13_Witness ==
  /\ ~lookup.called
  /\ lookup.ts_before # << >>
  /\ lookup.at - lookup.ts_before[1] = _CACHE_TTL_SECONDS - 1
  /\ lookup.result # << >>
  /\ Len(lookup.result) < Len(_cache_df[1])

\* C12: the market data of a process is cached for its lifetime: a lookup
\* issued less than 30 minutes after a snapshot fetch of the process
\* succeeded, in the same or in a later report build, issues no external
\* snapshot call.
C12_ProcessWideCache ==
  (/\ lookup # NoLookup
   /\ lookup.ok_before # << >>
   /\ lookup.at - lookup.ok_before[1] < _CACHE_TTL_SECONDS) => ~lookup.called

\* How many times x occurs in s
Count(s, x) == Cardinality({k \in 1..Len(s) : s[k] = x})

\* A row of the report without its three quote columns
WithoutQuotes(row) == [f \in DOMAIN row \ {"price", "cap", "float_cap"} |-> row[f]]

\* C14: when the market snapshot fetch of a run fails, the lookup returns
\* an empty result and the report is built from every record, each with its
\* three quote columns empty; the run returns the report path unless the
\* writing itself raises.
C14_ReportWithoutQuotes ==
  report.market = "failed" =>
    /\ lookup.called /\ ~lookup.ok /\ lookup.result = << >>
    /\ Len(report.rows) = Len(report.input)
    /\ \A k \in 1..Len(report.rows) :
         /\ report.rows[k].price = Null
         /\ report.rows[k].cap = Null
         /\ report.rows[k].float_cap = Null
         /\ Count([j \in 1..Len(report.rows) |-> WithoutQuotes(report.rows[j])],
                  WithoutQuotes(report.rows[k]))
              = Count(report.input, WithoutQuotes(report.rows[k]))
    /\ pc = "done" =>
         /\ report.input = records
         /\ report.path = ReportPath => (returned = ReportPath /\ report_files = 1)
         /\ returned = "None" => (report.path = "raised" /\ raised_in = "Report")

C14_Witness ==
  /\ pc = "done"
  /\ report.market = "failed"
  /\ returned = ReportPath
  /\ Len(report.rows) = 2
  /\ report.rows[1] # report.rows[2]

\* Row a may stand before row b in the report: its market cap is larger, or
\* b has none; on equal market caps (or none on both) its ratio is larger
\* or equal, or b has none
InReportOrder(a, b) ==
  \/ a.cap # Null /\ (b.cap = Null \/ a.cap[1] > b.cap[1])
  \/ /\ a.cap = b.cap
     /\ \/ ToNumeric(b.ratio) = Null
        \/ ToNumeric(a.ratio) # Null /\ ToNumeric(a.ratio)[1] >= ToNumeric(b.ratio)[1]

\* C15: the rows come out sorted by market cap, descending, ties by ratio,
\* descending, the rows without a market cap (resp. among ties, without a
\* ratio) after those that have one; market caps 10, 50, None, 30 come out as
\* 50, 30, 10, None; the output is a permutation of the input.
C15_SortedByCapThenRatio ==
  spc = "sorted" =>
    /\ Len(sort_out) = Len(sort_in)
    /\ \A k \in 1..Len(sort_in) : Count(sort_out, sort_in[k]) = Count(sort_in, sort_in[k])
    /\ \A j, k \in 1..Len(sort_out) : j < k => InReportOrder(sort_out[j], sort_out[k])
    /\ \A r \in RowRatios :
         sort_in = RowsOfCaps(<< <<10>>, <<50>>, Null, <<30>> >>, r)
           => sort_out = RowsOfCaps(<< <<50>>, <<30>>, <<10>>, Null >>, r)

C15_Witness ==
  /\ spc = "sorted"
  /\ sort_in = RowsOfCaps(<< <<10>>, <<50>>, Null, <<30>> >>, <<"5", ".", "5">>)
  /\ sort_out = RowsOfCaps(<< <<50>>, <<30>>, <<10>>, Null >>, <<"5", ".", "5">>)

\* The capture of group 1 of a pattern in a text, stripped
StrippedCapture(pat, text) == Strip(ReGroup1(pat, text))

\* The ratio patterns that are found in the text with a capture that is a
\* number
RatioCandidates(text) ==
  {k \in 1..Len(_RATIO_PATTERNS) :
     /\ ReFound(_RATIO_PATTERNS[k], text)
     /\ IsDecimal(StrippedCapture(_RATIO_PATTERNS[k], text))}

\* The capture of the first of the candidates, the sentinel without one
FirstRatio(candidates, text) ==
  IF candidates = {} THEN Sentinel
  ELSE StrippedCapture(_RATIO_PATTERNS[Min(candidates)], text)

\* C16: the ratio is the numeric capture of the first pattern, in the order
\* of the table, that is found with a capture that is a number; it is "5.5"
\* for "减持不超过公司总股本的5.5%"; it is the sentinel when no pattern gives a
\* number.
C16_RatioFirstPattern ==
  (epc = "done" /\ efield = "ratio") =>
    /\ eout = FirstRatio(RatioCandidates(etext), etext)
    /\ etext = <<"jian", "chi", "bu", "chao", "guo", "gong", "si", "zong2", "gu", "ben", "de", "5", ".", "5", "%">> => eout = <<"5", ".", "5">>

C16_Witness ==
  /\ epc = "done" /\ efield = "ratio"
  /\ eout # Sentinel
  /\ \E k \in RatioCandidates(etext) : StrippedCapture(_RATIO_PATTERNS[k], etext) # eout

\* The quantity patterns that are found in the text
QtyCandidates(text) == {k \in 1..Len(_QTY_PATTERNS) : ReFound(_QTY_PATTERNS[k].pat, text)}

\* The amount the k-th quantity pattern captures, without its separators
QtyAmount(k, text) ==
  SelectSeq(ReGroup1(_QTY_PATTERNS[k].pat, text), LAMBDA c : c \notin {",", "fcomma"})

\* The amount in units of one share: an amount in shares as it is, an
\* amount in ten-thousands of shares times 10000
QtyShares(k, text) ==
  IF _QTY_PATTERNS[k].unit = "share" THEN DigitsValue(QtyAmount(k, text))
  ELSE ToNumeric(QtyAmount(k, text))[1]

\* The text is a decimal number of 4 decimals at most that does not end in
\* a point or in a zero after the point
IsTrimmed(s) ==
  /\ IsDecimal(s)
  /\ s[Len(s)] # "."
  /\ PointOf(s) <= Len(s) => (s[Len(s)] # "0" /\ Len(s) - PointOf(s) <= 4)
  /\ PointOf(s) > 1

\* C17: the quantity is the amount of the first pattern found, in units of
\* 10000 shares: an amount in shares divided by 10000, an amount in
\* ten-thousands of shares as it is, without separators, printed with 4
\* decimals at most and no trailing zeros or point; "不超过1000000股" gives "100".
C17_QuantityInTenThousands ==
  (epc = "done" /\ efield = "quantity") =>
    /\ IF QtyCandidates(etext) = {} THEN eout = Sentinel
       ELSE /\ IsTrimmed(eout)
            /\ ToNumeric(eout) = <<QtyShares(Min(QtyCandidates(etext)), etext)>>
    /\ etext = <<"bu", "chao", "guo", "1", "0", "0", "0", "0", "0", "0", "gu">> => eout = <<"1", "0", "0">>

C17_Witness ==
  /\ epc = "done" /\ efield = "quantity"
  /\ etext = <<"bu", "chao", "guo", "1", "0", "0", "0", "0", "0", "0", "gu">>
  /\ _QTY_PATTERNS[Min(QtyCandidates(etext))].unit = "share"
  /\ eout = <<"1", "0", "0">>

\* a and b joined by "、", either of them possibly empty
Glue(a, b) == IF a = << >> THEN b ELSE IF b = << >> THEN a ELSE a \o <<"dun">> \o b

\* The names of the categories of the table, from the k-th on, that have a
\* trigger in the text, joined
RECURSIVE JoinedHits(_, _, _)
JoinedHits(map, k, text) ==
  IF k > Len(map) THEN << >>
  ELSE Glue(IF \E j \in 1..Len(map[k].kws) : Contains(text, map[k].kws[j])
            THEN map[k].name ELSE << >>,
            JoinedHits(map, k + 1, text))

\* C18: the method and the share origin name every category of their table
\* that has a trigger in the text, and no other, each once, in the order of
\* the table whatever the order of the triggers in the text; a text with
\* "大宗交易" and "集中竞价" yields both.
C18_EveryCategoryInTableOrder ==
  /\ (epc = "done" /\ efield = "method") =>
       /\ eout = OrSentinel(JoinedHits(_METHOD_MAP, 1, etext))
       /\ (Contains(etext, <<"da", "zong", "jiao", "yi">>) /\ Contains(etext, <<"ji2", "zhong", "jing", "jia">>)) =>
            (Contains(eout, <<"da", "zong", "jiao", "yi">>) /\ Contains(eout, <<"ji2", "zhong", "jing", "jia">>))
  /\ (epc = "done" /\ efield = "source") =>
       eout = OrSentinel(JoinedHits(_SOURCE_MAP, 1, etext))

C18_Witness ==
  /\ epc = "done" /\ efield = "method"
  /\ etext = <<"ji2", "zhong", "jing", "jia", "da", "zong", "jiao", "yi", "ji7", "E", "S", "O", "P">>
  /\ eout = <<"da", "zong", "jiao", "yi", "dun", "ji2", "zhong", "jing", "jia">>

\* The holder patterns that are found in the text with a capture of 2 to 25
\* characters
HolderCandidates(text) ==
  {k \in 1..Len(_HOLDER_PATTERNS) :
     /\ ReFound(_HOLDER_PATTERNS[k], text)
     /\ Len(StrippedCapture(_HOLDER_PATTERNS[k], text)) \in 2..25}

\* The capture of the first of the candidates, the sentinel without one
FirstInRange(candidates, text) ==
  IF candidates = {} THEN Sentinel
  ELSE StrippedCapture(_HOLDER_PATTERNS[Min(candidates)], text)

LoopEnded == dpc \in {"stopped", "killed"}

\* C20: the loop of the daemon never ends because of an exception: an
\* exception that an iteration raises, the keyboard interrupt apart, is
\* caught and logged and the loop waits its cooldown, after which it polls
\* again unless it is interrupted; the loop ends only on a keyboard
\* interrupt.
C20_DaemonSurvivesExceptions ==
  /\ [](LoopEnded => ended_by = KeyboardInterrupt)
  /\ [][(dpc \in {"poll", "job"} /\ dpc' \notin {"sleep", "job"}
                                  /\ raised_exc' # KeyboardInterrupt)
          => (dpc' = "cooldown" /\ errors' = errors + 1 /\ ended_by' = "")]_vars
  /\ [][dpc = "cooldown" => (dpc' = "poll" \/ ended_by' = KeyboardInterrupt)]_vars
  /\ (dpc = "cooldown") ~> (dpc = "poll" \/ ended_by = KeyboardInterrupt)

C20_Witness ==
  /\ dpc = "sleep"
  /\ errors >= 1
  /\ raised_exc = ""
  /\ jobs >= 1

\* The code of the record is the instrument code of the announcement, as a
\* text filled with zeros on the left up to 6 characters
CarriesCode(rec, ann) ==
  LET code == PyToStr(Get(Ann(ann), "secCode", PyStr(<<>>)))
      pad  == Len(rec.code) - Len(code)
  IN  /\ Len(rec.code) = (IF Len(code) >= 6 THEN Len(code) ELSE 6)
      /\ SubSeq(rec.code, pad + 1, Len(rec.code)) = code
      /\ \A k \in 1..pad : rec.code[k] = "0"

\* The title of the record is the title of the announcement
CarriesTitle(rec, ann) == rec.title = Get(Ann(ann), "announcementTitle", PyStr(<<>>))

\* C26: the Extract stage makes one record per filtered announcement, in the
\* order of the filtered list: record i carries the title and the
\* instrument code of announcement i at every moment of the stage, and once
\* the stage is over there are as many records as filtered announcements.
C26_OneRecordPerAnnouncement ==
  /\ Len(records) <= Len(reduction_ann)
  /\ \A i \in 1..Len(records) :
       /\ CarriesTitle(records[i], reduction_ann[i])
       /\ CarriesCode(records[i], reduction_ann[i])
  /\ "Report" \in Range(stages) => Len(records) = Len(reduction_ann)

C26_Witness ==
  /\ "Report" \in Range(stages)
  /\ Len(records) >= 2
  /\ records[1].title # records[2].title
  /\ enable_pdf_enhance

\* The rows of the report without their quote columns
RecordsOf(rows) == [j \in 1..Len(rows) |-> WithoutQuotes(rows[j])]

\* C27: joining the quotes onto the records keeps the records: whatever the
\* market snapshot, the detail table of a report has exactly one row per
\* record (none dropped, none repeated), and the row of a record whose code
\* has no quote has empty quote columns.
C27_LeftJoinKeepsRecords ==
  report.market \in {"ok", "failed"} =>
    /\ Len(report.rows) = Len(report.input)
    /\ \A k \in 1..Len(report.rows) :
         /\ Count(RecordsOf(report.rows), WithoutQuotes(report.rows[k]))
              = Count(report.input, WithoutQuotes(report.rows[k]))
         /\ (\A j \in 1..Len(lookup.result) : lookup.result[j].code # report.rows[k].code)
              => (/\ report.rows[k].price = Null
                  /\ report.rows[k].cap = Null
                  /\ report.rows[k].float_cap = Null)

\* The announcement has an id, and it is not empty
HasId(ann) ==
  /\ "announcementId" \in DOMAIN Ann(ann)
  /\ Ann(ann).announcementId.type # "NoneType"
  /\ Ann(ann).announcementId.type = "str" => Ann(ann).announcementId.val # << >>
  /\ Ann(ann).announcementId.type = "int" => Ann(ann).announcementId.val # 0

\* The announcements the endpoint has served in this fetch
ServedAnns == UNION {UNION {Range(got[t][p]) : p \in 1..Len(got[t])} : t \in Terms}

\* C28: an announcement whose id is missing or empty is never in the merged
\* result of the fetch: every announcement of the result has an id that is
\* not empty, which is among the ids seen.
C28_ResultHasIds ==
  \A k \in 1..Len(all_ann) :
    /\ HasId(all_ann[k])
    /\ IdOf(all_ann[k]) \in seen_ids

C28_Witness ==
  /\ pc = "fetched"
  /\ all_ann # << >>
  /\ \E a, b \in ServedAnns :
       /\ "announcementId" \notin DOMAIN Ann(a)
       /\ "announcementId" \in DOMAIN Ann(b) /\ Ann(b).announcementId = PyStr(<< >>)

\* The last lookup issued the external call and the call failed
LookupFailed == lookup.called /\ ~lookup.ok

\* C29: a failed snapshot fetch leaves the snapshot and its time as they
\* were and is not cached: the failing lookup returns nothing, even when an
\* expired snapshot is held, and the next lookup issues the external call
\* again; the time of the snapshot changes only on a successful fetch, to
\* the time of that fetch, together with the snapshot.
C29_FailedFetchNotCached ==
  /\ [](LookupFailed =>
          /\ lookup.result = << >>
          /\ _cache_df = lookup.df_before
          /\ _cache_ts = lookup.ts_before)
  /\ [][(LookupFailed /\ ticks' = ticks) => lookup'.called]_vars
  /\ [][(_cache_ts' # _cache_ts \/ _cache_df' # _cache_df) =>
          /\ lookup'.called /\ lookup'.ok
          /\ _cache_ts' = <<lookup'.at>>
          /\ _cache_df' # << >>
          /\ lookup'.result = Restricted(_cache_df'[1], lookup'.codes)]_vars

C29_Witness ==
  /\ LookupFailed
  /\ lookup.df_before # << >>
  /\ lookup.at - lookup.ts_before[1] >= _CACHE_TTL_SECONDS
  /\ snapshot_calls >= 3

\* The fetch is about to issue a request: every step from here posts one
Requesting == pc = "request"

\* C23: retry_request makes max_retries attempts of one HTTP call at most.
\* The first response that succeeds is returned and no further attempt of
\* that page is made; after the failed attempt k < max_retries it sleeps
\* 2^k seconds and makes attempt k + 1; after the last failed attempt it
\* returns no response without a sleep.  Nothing else retries: the paging of
\* the term stops at the failed page, and the pipeline does not go back to
\* the fetch.
C23_RetryWithBackoff ==
  /\ [](attempt \in 1..max_retries)
  /\ [][Requesting =>
          /\ io' # << >>
          /\ io'[1].op = "post" /\ io'[1].term = term /\ io'[1].page = page
          /\ io'[1].resp.ok => ~(pc' = "request" /\ term' = term /\ page' = page)
          /\ (~io'[1].resp.ok /\ attempt < max_retries) =>
               /\ io' = <<Post(term, page, NoResponse), Slept(1000 * 2^attempt)>>
               /\ pc' = "request" /\ term' = term /\ page' = page
               /\ attempt' = attempt + 1
          /\ (~io'[1].resp.ok /\ attempt = max_retries) =>
               /\ io' = <<Post(term, page, NoResponse)>>
               /\ pc' = "merge" /\ failed' = "http"
               /\ UNCHANGED <<items, returned>>]_vars
  /\ [][(failed = "http" /\ pc' = "request") => (term' = term + 1 /\ page' = 1)]_vars
  /\ [][pc \notin {"start", "request", "merge"} => pc' # "request"]_vars

C23_Witness ==
  /\ pc = "merge"
  /\ failed = "http"
  /\ attempt = max_retries
  /\ io = <<Post(term, page, NoResponse)>>
  /\ page = 2

\* The page of the term whose request has just been answered, if any
Answered ==
  /\ io # << >>
  /\ io[1].op = "post"
  /\ io[1].resp.ok

\* "page * 30 >= total", for the total of an answer
Covered(p, resp) ==
  /\ resp.json
  /\ resp.total.type = "int"
  /\ p * 30 >= resp.total.val

\* C24: for each keyword the pages are requested in the order 1, 2, 3, ...
\* up to the page cap.  After a page p answered with a total T such that
\* p * 30 >= T no page p + 1 of the keyword is requested; when the total
\* is not covered, the cap is not reached and the page was not empty, page
\* p + 1 is requested next.
C24_PagingStopsWhenCovered ==
  /\ [](page \in 1..MaxPages /\ term \in 1..Len(search_terms))
  /\ [](Requesting /\ ~Answered /\ attempt = 1 => page = 1)
  /\ [][Requesting =>
          /\ io'[1].op = "post" /\ io'[1].term = term /\ io'[1].page = page
          /\ pc' = "request" =>
                /\ term' = term
                /\ page' \in {page, page + 1}
                /\ page' = page + 1 <=> io'[1].resp.ok
          /\ (io'[1].resp.ok /\ Covered(page, io'[1].resp)) => pc' # "request"
          /\ ( /\ io'[1].resp.ok
               /\ io'[1].resp.json
               /\ io'[1].resp.count > 0
               /\ io'[1].resp.total.type = "int"
               /\ ~(page * 30 >= io'[1].resp.total.val)
               /\ page < MaxPages ) =>
                (pc' = "request" /\ page' = page + 1)]_vars
  /\ [][(~Requesting /\ pc' = "request") => (page' = 1 /\ (pc = "merge" => term' = term + 1))]_vars
  /\ [][term' >= term]_vars

C24_Witness ==
  /\ pc = "merge"
  /\ Answered
  /\ io[1].page = 2
  /\ io[1].resp.count > 0
  /\ Covered(2, io[1].resp)
  /\ io[1].resp.total.val > 30

\* The sleep a request of the fetch comes after: none before the first
\* request, the backoff before another attempt of a page, the request delay
\* before the first attempt of another page or of another term
SleepBefore ==
  IF attempt > 1 THEN <<Slept(1000 * 2^(attempt - 1))>>
  ELSE IF term = 1 /\ page = 1 THEN << >>
  ELSE <<Slept(1500)>>

\* C25: within one fetch a sleep separates any two consecutive requests:
\* the request delay between two pages of a keyword and between the last
\* request of a keyword and the first of the next, the backoff between two
\* attempts of a page.  Every step that requests issues one request, before
\* its sleeps, and no other step issues a request.
C25_DelayBetweenRequests ==
  /\ [](Requesting =>
          /\ SleepBefore = << >> => io = << >>
          /\ SleepBefore # << >> =>
               /\ io # << >>
               /\ io[Len(io)] = SleepBefore[1])
  /\ [][Requesting =>
          /\ io' # << >>
          /\ io'[1].op = "post"
          /\ \A k \in 2..Len(io') : io'[k].op = "sleep"]_vars
  /\ [][~Requesting =>
          \A k \in 1..Len(io') : io'[k].op = "sleep"]_vars

C25_Witness ==
  /\ Requesting
  /\ term = 2
  /\ page = 2
  /\ attempt = 1
  /\ io = <<Post(2, 1, Response(TRUE, <<1>>, PyInt(31))), Slept(request_delay)>>
  /\ got[1] # << >>

\* C21: in the daemon at most one pipeline run is in progress at any time:
\* a run starts only when none is in progress.  Each scheduled time (the
\* tick at_time of a day) triggers one run at most, however long the run
\* before it took: the runs are triggered by scheduled times that
\* increase, and none starts before the time that triggers it.
C21_OneRunAtATime ==
  /\ [](running \in {0, 1})
  /\ [](running = 1 <=> dpc = "job")
  /\ [](\A k \in 1..Len(runs) :
          /\ runs[k].scheduled % Day = at_time
          /\ runs[k].started >= runs[k].scheduled
          /\ \A j \in 1..(k - 1) : runs[j].scheduled < runs[k].scheduled)
  /\ [][running' > running => running = 0]_vars

C21_Witness ==
  /\ Len(runs) = 2
  /\ runs[2].scheduled - runs[1].scheduled > Day
  /\ runs[2].started > runs[1].started + Day
  /\ dpc = "job"

\* C22: in run mode the report of the run is written inside the directory
\* given with --output-dir, when one is given.
C22_ReportInSuppliedDir ==
  (written # <<>> /\ argv.output_dir # <<>>) => written[1].dir = argv.output_dir[1]

\* The events of a kind in what crawl_batch has done
Events(op) == SelectSeq(trace, LAMBDA ev : ev.op = op)

\* The data of the crawls that returned some, in the order of the crawls
RECURSIVE DataOf(_)
DataOf(crawls) ==
  IF crawls = <<>> THEN <<>>
  ELSE (IF Head(crawls).data # <<>> THEN <<Head(crawls).data[1]>> ELSE <<>>)
       \o DataOf(Tail(crawls))

\* C30: crawl_batch takes the companies one at a time in the order of the
\* input.  The callback, when there is one, is called once for each company
\* after its crawl and before the next, with current = 1, 2, ..., total and
\* success true exactly when the crawl returned data; the list returned
\* holds the data of the successful crawls in the order of the input; every
\* company is crawled, whatever failed before it; the delay comes after
\* every company but the last.
C30_BatchInOrder ==
  LET crawls == Events("crawl")
      calls  == Events("callback")
      delays == Events("delay")
      total  == Len(company_names)
  IN  /\ \A k \in 1..Len(crawls) :
            crawls[k].i = k /\ crawls[k].company = company_names[k]
      /\ \A k \in 1..Len(calls) :
            /\ calls[k].current = k
            /\ calls[k].total = total
            /\ calls[k].company = company_names[k]
            /\ k <= Len(crawls)
            /\ calls[k].success <=> crawls[k].data # <<>>
      /\ \A k \in 1..Len(delays) : delays[k].i = k /\ k < total
      /\ \A p \in 2..Len(trace) :
            /\ trace[p].op = "crawl" => trace[p - 1] = Delayed(trace[p].i - 1)
            /\ trace[p].op = "callback" =>
                 (trace[p - 1].op = "crawl" /\ trace[p - 1].i = trace[p].current)
            /\ trace[p].op = "delay" =>
                 /\ trace[p - 1].op = (IF progress_callback THEN "callback" ELSE "crawl")
                 /\ trace[p].i = (IF progress_callback THEN trace[p - 1].current
                                  ELSE trace[p - 1].i)
      /\ results = DataOf(crawls)
      /\ bpc = "returned" =>
            /\ Len(crawls) = total
            /\ Len(calls) = (IF progress_callback THEN total ELSE 0)
            /\ Len(delays) = (IF total = 0 THEN 0 ELSE total - 1)

C30_Witness ==
  /\ bpc = "returned"
  /\ progress_callback
  /\ Len(company_names) = 3
  /\ Len(results) = 2
  /\ results[1].crawl_time = 1
  /\ results[2].crawl_time = 3
  /\ company_names[1] = company_names[3]

====
